---- MODULE Spec2Model ----
(***************************************************************************)
(* Newsletter generator: the CSV pipeline of csv_processor.py              *)
(* (CSVProcessor) and the step-by-step workflow of app.py (app_flow).      *)
(*                                                                         *)
(* Text is TLA+ strings, taken apart character by character with SubSeq.   *)
(* A table cell is a tagged value (text, int, float, bool, NaN), as pandas    *)
(* holds text, int64, float64, bool and missing values side by side.       *)
(*                                                                         *)
(* TLC evaluates an operator argument once and a LET definition at every   *)
(* use, so a value that is read several times is handed on as an argument. *)
(***************************************************************************)
EXTENDS Integers, Sequences, FiniteSets, TLC

VARIABLES
    uploaded_file,            \* the CSV in the file uploader, or NoFile
    courses_df,               \* app_flow's courses_df of the current run, or NoTable
    load_error,               \* message of the exception process_csv raised in this run, or NoError
    available_content_types,  \* app_flow's available_content_types of the current run
    selection,                \* what the last get_courses_by_type call returned, or NoSelection
    pc,                       \* position of the current script run in app_flow
    content_order,            \* st.session_state.content_order, or NoOrder
    html_generated,           \* st.session_state.html_generated
    content_generated,        \* st.session_state.content_generated
    llm_helper,               \* the LLMHelper the composer and the workflow hold, or NoHelper
    events,                   \* app_flow's events of the current run
    generation,               \* st.session_state.html_blocks and newsletter_html, with the fragment of each entry
    rendered,                 \* what the last call of a composer returned, or NoRender
    event_inputs,             \* the widgets of the event slots: title, description, URL, image URL
    content,                  \* st.session_state.subject_lines, preview_text and newsletter_summary
    order_log,                \* the order Step 2 of this run read, and the order the last reposition stored
    page                      \* what the current script run has put on the page: an error, a final newsletter

vars == <<uploaded_file, courses_df, load_error, available_content_types, selection,
          pc, content_order, html_generated, content_generated,
          llm_helper, events, generation, rendered, event_inputs, content, order_log, page>>

----------------------------------------------------------------------------
(* Bounds of the model *)

MaxRows == 2

\* rows of an export that is rendered
MaxCourses == 2

\* blocks handed to the assembler
MaxBlocks == 2

----------------------------------------------------------------------------
(* Python str operations *)

CharAt(s, i) == SubSeq(s, i, i)

\* position of the first occurrence of the one-character string c in s, 0 when absent
Least(at) == IF at = {} THEN 0 ELSE CHOOSE i \in at : \A j \in at : i <= j
Greatest(at) == IF at = {} THEN 0 ELSE CHOOSE i \in at : \A j \in at : i >= j

IndexOf(s, c) == Least({i \in 1..Len(s) : CharAt(s, i) = c})

LowerChar(c) ==
    CASE c = "A" -> "a" []
         c = "B" -> "b" []
         c = "C" -> "c" []
         c = "D" -> "d" []
         c = "E" -> "e" []
         c = "F" -> "f" []
         c = "G" -> "g" []
         c = "H" -> "h" []
         c = "I" -> "i" []
         c = "J" -> "j" []
         c = "K" -> "k" []
         c = "L" -> "l" []
         c = "M" -> "m" []
         c = "N" -> "n" []
         c = "O" -> "o" []
         c = "P" -> "p" []
         c = "Q" -> "q" []
         c = "R" -> "r" []
         c = "S" -> "s" []
         c = "T" -> "t" []
         c = "U" -> "u" []
         c = "V" -> "v" []
         c = "W" -> "w" []
         c = "X" -> "x" []
         c = "Y" -> "y" []
         c = "Z" -> "z" []
         OTHER -> c

RECURSIVE Lower(_)
\* str.lower()
Lower(s) ==
    IF s = "" THEN "" ELSE LowerChar(CharAt(s, 1)) \o Lower(SubSeq(s, 2, Len(s)))

IsSpace(c) == c \in {" ", "\t", "\n", "\r"}

Between(s, lo, hi) == IF lo = 0 THEN "" ELSE SubSeq(s, lo, hi)

\* str.strip()
Strip(s) ==
    Between(s, Least({i \in 1..Len(s) : ~IsSpace(CharAt(s, i))}),
               Greatest({i \in 1..Len(s) : ~IsSpace(CharAt(s, i))}))

\* sub in s
Contains(s, sub) ==
    \E i \in 1..(Len(s) - Len(sub) + 1) : SubSeq(s, i, i + Len(sub) - 1) = sub

DigitChars == <<"0", "1", "2", "3", "4", "5", "6", "7", "8", "9">>
IsDigit(c) == c \in {"0", "1", "2", "3", "4", "5", "6", "7", "8", "9"}
DigitVal(c) == (CHOOSE k \in 1..10 : DigitChars[k] = c) - 1
AllDigits(s) == s # "" /\ \A i \in 1..Len(s) : IsDigit(CharAt(s, i))

RECURSIVE DigitsVal(_)
\* int(s) of a string of digits
DigitsVal(s) ==
    IF s = "" THEN 0
    ELSE 10 * DigitsVal(SubSeq(s, 1, Len(s) - 1)) + DigitVal(CharAt(s, Len(s)))

\* s is an integer literal: an optional minus sign and digits
IsIntLit(s) ==
    \/ AllDigits(s)
    \/ Len(s) > 1 /\ CharAt(s, 1) = "-" /\ AllDigits(SubSeq(s, 2, Len(s)))

IntLit(s) ==
    IF CharAt(s, 1) = "-" THEN 0 - DigitsVal(SubSeq(s, 2, Len(s))) ELSE DigitsVal(s)

\* f"{x}" of an int
IntText(n) == IF n < 0 THEN "-" \o ToString(0 - n) ELSE ToString(n)

----------------------------------------------------------------------------
(* datetime.strptime / strftime, as _format_date uses them *)

MonthNames == <<"January", "February", "March", "April", "May", "June", "July",
                "August", "September", "October", "November", "December">>

IsLeap(y) == (y % 4 = 0 /\ y % 100 # 0) \/ y % 400 = 0

DaysInMonth(m, y) ==
    IF m = 2 THEN (IF IsLeap(y) THEN 29 ELSE 28)
    ELSE IF m \in {4, 6, 9, 11} THEN 30 ELSE 31

NoDate == [ok |-> FALSE, d |-> 0, m |-> 0, y |-> 0]

SplitRest(first, rest, p2) ==
    IF p2 = 0 THEN <<>> ELSE <<first, SubSeq(rest, 1, p2 - 1), SubSeq(rest, p2 + 1, Len(rest))>>

SplitAt(s, sep, p1) ==
    IF p1 = 0 THEN <<>>
    ELSE SplitRest(SubSeq(s, 1, p1 - 1), SubSeq(s, p1 + 1, Len(s)),
                   IndexOf(SubSeq(s, p1 + 1, Len(s)), sep))

\* the three fields of s around the separator sep, <<>> unless there are three
SplitThree(s, sep) == SplitAt(s, sep, IndexOf(s, sep))

\* the date of day, month and year texts: %d and %m take one or two digits, %Y four
DateOf(dd, mm, yyyy) ==
    IF /\ AllDigits(dd) /\ Len(dd) <= 2
       /\ AllDigits(mm) /\ Len(mm) <= 2
       /\ AllDigits(yyyy) /\ Len(yyyy) = 4
       /\ DigitsVal(yyyy) >= 1
       /\ DigitsVal(mm) \in 1..12
       /\ DigitsVal(dd) \in 1..DaysInMonth(DigitsVal(mm), DigitsVal(yyyy))
    THEN [ok |-> TRUE, d |-> DigitsVal(dd), m |-> DigitsVal(mm), y |-> DigitsVal(yyyy)]
    ELSE NoDate

DateOfDMY(f) == IF f = <<>> THEN NoDate ELSE DateOf(f[1], f[2], f[3])
DateOfYMD(f) == IF f = <<>> THEN NoDate ELSE DateOf(f[3], f[2], f[1])

\* datetime.strptime(s, '%d/%m/%Y'); ok = FALSE stands for ValueError
StrptimeDMY(s) == DateOfDMY(SplitThree(s, "/"))

\* datetime.strptime(s, '%Y-%m-%d')
StrptimeYMD(s) == DateOfYMD(SplitThree(s, "-"))

Pad2(n) == IF n < 10 THEN "0" \o ToString(n) ELSE ToString(n)

\* date_obj.strftime('%d %B %Y')
Strftime(date) == Pad2(date.d) \o " " \o MonthNames[date.m] \o " " \o ToString(date.y)

----------------------------------------------------------------------------
(* Table cells and pandas.read_csv *)

\* f itself, held as an evaluated function: TLC evaluates a function constructor anew at
\* every application, and a table is read many times
Eval(f) == f @@ <<>>

CellStr(s) == [t |-> "str", s |-> s, n |-> 0]
CellInt(n) == [t |-> "int", s |-> "", n |-> n]
CellFloat(n) == [t |-> "float", s |-> "", n |-> n]      \* a float64 holding the whole number n
CellBool(b) == [t |-> "bool", s |-> "", n |-> IF b THEN 1 ELSE 0]
NaN == [t |-> "nan", s |-> "", n |-> 0]

IsNumber(cell) == cell.t \in {"int", "float", "bool"}

\* the column of raw texts under header position k
RawColumn(file, k) == Eval([i \in 1..Len(file.rows) |-> file.rows[i][k]])

\* dtype read_csv infers for a column of raw texts: an empty cell is missing
InferDtype(texts) ==
    IF Len(texts) = 0 THEN "object"
    ELSE IF \A i \in 1..Len(texts) : texts[i] = "" \/ IsIntLit(texts[i])
         THEN (IF \A i \in 1..Len(texts) : texts[i] # "" THEN "int64" ELSE "float64")
         ELSE "object"

ReadCell(text, dtype) ==
    IF text = "" THEN NaN
    ELSE IF dtype = "int64" THEN CellInt(IntLit(text))
    ELSE IF dtype = "float64" THEN CellFloat(IntLit(text))
    ELSE CellStr(text)

Range(seq) == {seq[i] : i \in 1..Len(seq)}

HeaderPos(header, c) == CHOOSE k \in 1..Len(header) : header[k] = c

ReadFrame(file, dtypeAt) ==
    [columns |-> file.header,
     dtypes  |-> Eval([c \in Range(file.header) |-> dtypeAt[HeaderPos(file.header, c)]]),
     index   |-> Eval([i \in 1..Len(file.rows) |-> i - 1]),
     rows    |-> Eval([i \in 1..Len(file.rows) |->
                    Eval([c \in Range(file.header) |->
                            ReadCell(file.rows[i][HeaderPos(file.header, c)],
                                     dtypeAt[HeaderPos(file.header, c)])])])]

\* pd.read_csv(file, encoding='utf-8'): header texts as given, one dtype per column
ReadCsv(file) ==
    ReadFrame(file, Eval([k \in 1..Len(file.header) |-> InferDtype(RawColumn(file, k))]))

----------------------------------------------------------------------------
(* DataFrame helpers *)

EmptyFrame == [columns |-> <<>>, dtypes |-> <<>>, index |-> <<>>, rows |-> <<>>]

RECURSIVE Which(_)
\* the positions of the TRUE entries of a boolean mask, ascending
Which(mask) ==
    IF mask = <<>> THEN <<>>
    ELSE LET n == Len(mask)
             before == Which(SubSeq(mask, 1, n - 1))
         IN  IF mask[n] THEN Append(before, n) ELSE before

Take(df, at) ==
    [df EXCEPT !.index = Eval([k \in 1..Len(at) |-> df.index[at[k]]]),
               !.rows  = Eval([k \in 1..Len(at) |-> df.rows[at[k]]])]

\* df[mask]: the rows the mask selects, in order, each keeping its index label
Filter(df, mask) == Take(df, Which(Eval(mask)))

PutColumn(df, cols, name, values, dtype) ==
    [columns |-> cols,
     dtypes  |-> Eval([c \in Range(cols) |-> IF c = name THEN dtype ELSE df.dtypes[c]]),
     index   |-> df.index,
     rows    |-> Eval([i \in 1..Len(df.rows) |->
                    Eval([c \in Range(cols) |-> IF c = name THEN values[i] ELSE df.rows[i][c]])])]

\* df[name] = values: replaces the column, or appends it as the last one
SetColumn(df, name, values, dtype) ==
    PutColumn(df, IF name \in Range(df.columns) THEN df.columns ELSE Append(df.columns, name),
              name, values, dtype)

Column(df, name) == [i \in 1..Len(df.rows) |-> df.rows[i][name]]

\* Series.str.lower() on one element: a missing value stays missing
StrLower(cell) == IF cell.t = "str" THEN CellStr(Lower(cell.s)) ELSE NaN

\* element == text
EqualsText(cell, text) == cell.t = "str" /\ cell.s = text

\* Series.astype(str) on one element
AsStr(cell) ==
    IF cell.t = "str" THEN cell.s
    ELSE IF cell.t = "nan" THEN "nan"
    ELSE IF cell.t = "int" THEN IntText(cell.n)
    ELSE IF cell.t = "float" THEN IntText(cell.n) \o ".0"
    ELSE IF cell.n = 1 THEN "True" ELSE "False"

\* f"{x}" of a number of a numeric column
NumText(cell) == IF cell.t = "float" THEN IntText(cell.n) \o ".0" ELSE IntText(cell.n)

----------------------------------------------------------------------------
(* CSVProcessor *)

\* the required columns with 'Day' forgotten
required_columns_without_day ==
    <<"Name", "Status", "Start Date", "Time", "Type", "Classes", "Active Participants">>

required_columns ==
    <<"Name", "Status", "Start Date", "Time", "Type", "Day", "Classes", "Active Participants">>

string_columns == <<"Name", "Status", "Type", "Day">>
numeric_columns == <<"Classes", "Active Participants">>

RenameColumns(df, cols) ==
    [columns |-> cols,
     dtypes  |-> Eval([c \in Range(cols) |-> df.dtypes[df.columns[HeaderPos(cols, c)]]]),
     index   |-> df.index,
     rows    |-> Eval([i \in 1..Len(df.rows) |->
                    Eval([c \in Range(cols) |-> df.rows[i][df.columns[HeaderPos(cols, c)]]])])]

\* df.columns = df.columns.str.strip()
StripColumns(df) == RenameColumns(df, Eval([k \in 1..Len(df.columns) |-> Strip(df.columns[k])]))

\* df[col] = df[col].astype(str).str.strip()
CleanStringColumn(df, col) ==
    SetColumn(df, col, [i \in 1..Len(df.rows) |-> CellStr(Strip(AsStr(df.rows[i][col])))], "object")

\* pd.to_numeric(element, errors='coerce'): text that is no number becomes missing
Coerce(cell) ==
    IF cell.t = "str" THEN (IF IsIntLit(cell.s) THEN CellInt(IntLit(cell.s)) ELSE NaN) ELSE cell

\* the conversion with .fillna(0) forgotten
FillNaForgotten(coerced, isFloat) ==
    [i \in 1..Len(coerced) |->
        IF coerced[i].t = "nan" THEN NaN
        ELSE IF isFloat THEN CellFloat(coerced[i].n) ELSE CellInt(coerced[i].n)]

\* Series.fillna(0) on a converted column: a column that held a missing value or a float is
\* float64, and 0.0 goes where a value is missing
FillNa(coerced, isFloat) ==
    [i \in 1..Len(coerced) |->
        IF coerced[i].t = "nan" THEN CellFloat(0)
        ELSE IF isFloat THEN CellFloat(coerced[i].n) ELSE CellInt(coerced[i].n)]

ToNumericFillNa(coerced) ==
    FillNa(coerced, \E i \in 1..Len(coerced) : coerced[i].t \in {"nan", "float"})

NumericDtype(cells) == IF \E i \in 1..Len(cells) : cells[i].t = "float" THEN "float64" ELSE "int64"

PutNumericColumn(df, col, cells) == SetColumn(df, col, cells, NumericDtype(cells))

\* df[col] = pd.to_numeric(df[col], errors='coerce').fillna(0)
CleanNumericColumn(df, col) ==
    PutNumericColumn(df, col,
        Eval(ToNumericFillNa(Eval([i \in 1..Len(df.rows) |-> Coerce(df.rows[i][col])]))))

RECURSIVE CleanStringColumns(_, _)
\* for col in string_columns: if col in df.columns: clean it
CleanStringColumns(df, cols) ==
    IF cols = <<>> THEN df
    ELSE CleanStringColumns(
             IF Head(cols) \in Range(df.columns) THEN CleanStringColumn(df, Head(cols)) ELSE df,
             Tail(cols))

RECURSIVE CleanNumericColumns(_, _)
\* for col in numeric_columns: if col in df.columns: convert it
CleanNumericColumns(df, cols) ==
    IF cols = <<>> THEN df
    ELSE CleanNumericColumns(
             IF Head(cols) \in Range(df.columns) THEN CleanNumericColumn(df, Head(cols)) ELSE df,
             Tail(cols))

_clean_data(df) ==
    CleanNumericColumns(CleanStringColumns(StripColumns(df), string_columns), numeric_columns)

VenueOf(name_lower) ==
    IF Contains(name_lower, "belair") THEN "Belair Park"
    ELSE IF Contains(name_lower, "dulwich") THEN "Dulwich Park"
    ELSE "Unknown Venue"

_extract_venue(name) == VenueOf(Lower(name))

SkillLevelOf(name_lower) ==
    IF Contains(name_lower, "beginner") THEN "Beginner"
    ELSE IF Contains(name_lower, "improver") THEN "Improver"
    ELSE IF Contains(name_lower, "intermediate") THEN "Intermediate"
    ELSE IF Contains(name_lower, "advanced") THEN "Advanced"
    ELSE "Unknown"

_extract_skill_level(name) == SkillLevelOf(Lower(name))

\* a failed parse giving a missing value instead of the text as it was
FormattedOrMissing(date_obj, date_str) == IF date_obj.ok THEN CellStr(Strftime(date_obj)) ELSE NaN

FormattedOr(date_obj, date_str) == IF date_obj.ok THEN CellStr(Strftime(date_obj)) ELSE date_str

\* a value that is no text makes '/' in date_str raise, and the except returns it as it is
_format_date(date_str) ==
    IF date_str.t # "str" THEN date_str
    ELSE FormattedOr(IF Contains(date_str.s, "/") THEN StrptimeDMY(date_str.s)
                     ELSE StrptimeYMD(date_str.s),
                     date_str)

\* df['Active Participants'] > 8
LimitedSpots(spots) == CellBool(spots.n > 8)

\* lambda x: f"{x} weeks" if x > 1 else f"{x} week"
DurationText(x) == CellStr(IF x.n > 1 THEN NumText(x) \o " weeks" ELSE NumText(x) \o " week")

WithVenue(df) ==
    SetColumn(df, "Venue",
        [i \in 1..Len(df.rows) |-> CellStr(_extract_venue(df.rows[i]["Name"].s))], "object")

WithSkillLevel(df) ==
    SetColumn(df, "Skill Level",
        [i \in 1..Len(df.rows) |-> CellStr(_extract_skill_level(df.rows[i]["Name"].s))], "object")

WithLimitedSpots(df) ==
    SetColumn(df, "Limited Spots",
        [i \in 1..Len(df.rows) |-> LimitedSpots(df.rows[i]["Active Participants"])], "bool")

WithFormattedStartDate(df) ==
    SetColumn(df, "Formatted Start Date",
        [i \in 1..Len(df.rows) |-> _format_date(df.rows[i]["Start Date"])], "object")

WithDurationText(df) ==
    SetColumn(df, "Duration Text",
        [i \in 1..Len(df.rows) |-> DurationText(df.rows[i]["Classes"])], "object")

\* the derived columns with the last one, 'Duration Text', not added
_add_derived_columns_without_duration(df) ==
    WithFormattedStartDate(WithLimitedSpots(WithSkillLevel(WithVenue(df))))

_add_derived_columns(df) ==
    WithDurationText(WithFormattedStartDate(WithLimitedSpots(WithSkillLevel(WithVenue(df)))))

NoTable == [columns |-> <<"(none)">>, dtypes |-> <<>>, index |-> <<>>, rows |-> <<>>]
NoError == ""

MissingColumnsError == "Missing required columns"
EmptyResultError == "No upcoming programs found in CSV"
StrAccessorError == "Can only use .str accessor with string values!"

Raise(message) == [ok |-> FALSE, df |-> NoTable, error |-> message]
Return(df) == [ok |-> TRUE, df |-> df, error |-> NoError]

\* [col for col in self.required_columns if col not in df.columns]
missing_columns(df) ==
    LET NotIn(col) == col \notin Range(df.columns)
    IN  SelectSeq(required_columns, NotIn)

\* df['Status'].str.lower() == 'upcoming'
UpcomingMask(df) ==
    [i \in 1..Len(df.rows) |-> EqualsText(StrLower(df.rows[i]["Status"]), "upcoming")]

\* the rest of process_csv once the filter has run
ProcessUpcoming(upcoming) ==
    IF upcoming.rows = <<>> THEN Raise(EmptyResultError)
    ELSE Return(_add_derived_columns(_clean_data(upcoming)))

\* process_csv once the file is read
ProcessFrame(df) ==
    IF missing_columns(df) # <<>> THEN Raise(MissingColumnsError)
    ELSE IF df.dtypes["Status"] # "object" THEN Raise(StrAccessorError)
    ELSE ProcessUpcoming(Filter(df, UpcomingMask(df)))

\* process_csv: every exception leaves as ValueError("Error processing CSV: ...") and
\* nothing is returned; the .str accessor raises on a column that is not of dtype object
process_csv(file) == ProcessFrame(ReadCsv(file))

\* df['Type'].str.lower() == text
TypeMask(df, text) ==
    [i \in 1..Len(df.rows) |-> EqualsText(StrLower(df.rows[i]["Type"]), text)]

\* Series.str.contains('event|session|drop', na=False) on one element
ContainsEventWord(cell) ==
    cell.t = "str" /\ \E w \in {"event", "session", "drop"} : Contains(cell.s, w)

\* the events filter without its | (df['Classes'] == 1)
EventMaskTypeOnly(df) ==
    [i \in 1..Len(df.rows) |-> ContainsEventWord(StrLower(df.rows[i]["Type"]))]

\* (df['Type'].str.lower().str.contains('event|session|drop', na=False)) | (df['Classes'] == 1)
EventMask(df) ==
    [i \in 1..Len(df.rows) |->
        \/ ContainsEventWord(StrLower(df.rows[i]["Type"]))
        \/ (IsNumber(df.rows[i]["Classes"]) /\ df.rows[i]["Classes"].n = 1)]

get_courses_by_type(df, content_type) ==
    IF content_type = "adults" THEN Filter(df, TypeMask(df, "adult"))
    ELSE IF content_type = "juniors" THEN Filter(df, TypeMask(df, "junior"))
    ELSE IF content_type = "events" THEN Filter(df, EventMask(df))
    ELSE EmptyFrame

RECURSIVE Unique(_)
\* Series.unique(): the distinct values in order of first appearance
Unique(seq) ==
    IF seq = <<>> THEN <<>>
    ELSE LET before == Unique(SubSeq(seq, 1, Len(seq) - 1))
         IN  IF seq[Len(seq)] \in Range(before) THEN before ELSE Append(before, seq[Len(seq)])

ContentTypeKeys == <<"adults", "juniors", "events", "drop_ins">>

SkillLevels(courses) ==
    Unique(Eval([i \in 1..Len(courses.rows) |-> courses.rows[i]["Skill Level"].s]))

\* one entry of content_types: available and count are set when the filter finds courses
ContentType(courses, levels) ==
    [available |-> courses.rows # <<>>, count |-> Len(courses.rows), levels |-> levels]

AdultsContentType(adult_courses) == ContentType(adult_courses, SkillLevels(adult_courses))

\* get_content_types: drop_ins is never filled in
get_content_types(df) ==
    [adults   |-> AdultsContentType(Filter(df, TypeMask(df, "adult"))),
     juniors  |-> ContentType(Filter(df, TypeMask(df, "junior")), <<>>),
     events   |-> ContentType(Filter(df, EventMask(df)), <<>>),
     drop_ins |-> [available |-> FALSE, count |-> 0, levels |-> <<>>]]

----------------------------------------------------------------------------
(* More of Python's str and list operations *)

\* the characters of the texts compared here, in code point order: Python compares texts
\* by code point
CodePoints ==
    " !#$%&()*+,-./0123456789:;<=>?@ABCDEFGHIJKLMNOPQRSTUVWXYZ_abcdefghijklmnopqrstuvwxyz"

Ord(c) == IndexOf(CodePoints, c)

RECURSIVE TextLess(_, _)
\* a < b on str
TextLess(a, b) ==
    IF a = "" THEN b # ""
    ELSE IF b = "" THEN FALSE
    ELSE IF CharAt(a, 1) = CharAt(b, 1) THEN TextLess(SubSeq(a, 2, Len(a)), SubSeq(b, 2, Len(b)))
    ELSE Ord(CharAt(a, 1)) < Ord(CharAt(b, 1))

RECURSIVE TextMin(_)
\* min() of a non-empty list of texts
TextMin(texts) ==
    IF Len(texts) = 1 THEN texts[1]
    ELSE IF TextLess(texts[Len(texts)], TextMin(SubSeq(texts, 1, Len(texts) - 1)))
         THEN texts[Len(texts)]
         ELSE TextMin(SubSeq(texts, 1, Len(texts) - 1))

RECURSIVE SortedTexts(_)
\* sorted() of a set of texts
SortedTexts(texts) ==
    IF texts = {} THEN <<>>
    ELSE LET least == CHOOSE x \in texts : \A y \in texts : x = y \/ TextLess(x, y)
         IN  <<least>> \o SortedTexts(texts \ {least})

RECURSIVE Join(_, _)
\* sep.join(parts)
Join(parts, sep) ==
    IF parts = <<>> THEN ""
    ELSE IF Len(parts) = 1 THEN parts[1]
    ELSE Join(SubSeq(parts, 1, Len(parts) - 1), sep) \o sep \o parts[Len(parts)]

StartsWith(s, prefix) == Len(s) >= Len(prefix) /\ SubSeq(s, 1, Len(prefix)) = prefix
EndsWith(s, suffix) == Len(s) >= Len(suffix) /\ SubSeq(s, Len(s) - Len(suffix) + 1, Len(s)) = suffix

RECURSIVE Split(_, _)
SplitFrom(s, sep, p) ==
    IF p = 0 THEN <<s>> ELSE <<SubSeq(s, 1, p - 1)>> \o Split(SubSeq(s, p + 1, Len(s)), sep)

\* s.split(sep) for a separator of one character
Split(s, sep) == SplitFrom(s, sep, IndexOf(s, sep))

SplitLines(s) == Split(s, "\n")

----------------------------------------------------------------------------
(* LLMHelper *)

\* what a call returns or raises: a text, or an exception
TextOk(text) == [ok |-> TRUE, text |-> text]
TextRaise == [ok |-> FALSE, text |-> ""]

\* what the chat completion does when it is called: it answers with a content, answers
\* with no content, or raises
Content(text) == [kind |-> "content", text |-> text]
NoContent == [kind |-> "none", text |-> ""]
ApiError == [kind |-> "raise", text |-> ""]

\* llm_helper = None
NoHelper == [attached |-> FALSE, api_key |-> FALSE, reply |-> NoContent]

\* LLMHelper(api_key): self.client is set exactly when there is an api key
LLMHelper(api_key, reply) == [attached |-> TRUE, api_key |-> api_key, reply |-> reply]

FALLBACK_DESCRIPTIONS(content_type) ==
    IF content_type = "adults"
    THEN "Perfect for players of all levels, our adult courses focus on technique, strategy, and match play."
    ELSE IF content_type = "juniors"
    THEN "Fun and engaging courses for young players, using the LTA's colored ball progression system."
    ELSE IF content_type = "events"
    THEN "Special sessions and events to enhance your tennis experience and meet other players."
    ELSE "Join our tennis courses and improve your game!"

FALLBACK_LEVEL_DESCRIPTIONS(level) ==
    IF level = "Beginner" THEN "Perfect for those new to tennis or returning after a break."
    ELSE IF level = "Improver" THEN "For players who are confident rallying and ready to level up."
    ELSE IF level = "Intermediate" THEN "For regular players wanting to refine technique and strategy."
    ELSE IF level = "Advanced"
    THEN "For experienced players focusing on advanced techniques and match play."
    ELSE "Suitable for all levels."

\* cleaned[1:-1] when the text starts and ends with the same quote
Unquote(cleaned) ==
    IF (StartsWith(cleaned, "\"") /\ EndsWith(cleaned, "\"")) \/ (StartsWith(cleaned, "'") /\ EndsWith(cleaned, "'"))
    THEN SubSeq(cleaned, 2, Len(cleaned) - 1)
    ELSE cleaned

\* line[0].isdigit() and len(line) > 1 and line[1] in ['.', ')', '-']
Numbered(line) == IsDigit(CharAt(line, 1)) /\ Len(line) > 1 /\ CharAt(line, 2) \in {".", ")", "-"}

DashStripped(line) == IF StartsWith(line, "- ") THEN Strip(SubSeq(line, 3, Len(line))) ELSE line

\* one stripped line of the loop: the lines it adds to cleaned_lines; line[0] of an empty
\* line raises IndexError
CleanLine(line) ==
    IF line = "" THEN [ok |-> FALSE, lines |-> <<>>]
    ELSE IF ~IsDigit(CharAt(line, 1)) \/ Numbered(line)
    THEN [ok |-> TRUE,
          lines |-> LET kept == DashStripped(IF Numbered(line) THEN Strip(SubSeq(line, 3, Len(line)))
                                                               ELSE line)
                    IN  IF kept = "" THEN <<>> ELSE <<kept>>]
    ELSE [ok |-> TRUE, lines |-> <<line>>]

RECURSIVE CleanLines(_)
CleanLines(lines) ==
    IF lines = <<>> THEN [ok |-> TRUE, lines |-> <<>>]
    ELSE LET before == CleanLines(SubSeq(lines, 1, Len(lines) - 1))
             last == CleanLine(Strip(lines[Len(lines)]))
         IN  [ok |-> before.ok /\ last.ok, lines |-> before.lines \o last.lines]

CleanedText(cleaned) == IF cleaned.ok THEN TextOk(Strip(Join(cleaned.lines, " "))) ELSE TextRaise

_clean_llm_response(response) ==
    IF response = "" THEN TextOk("")
    ELSE CleanedText(CleanLines(SplitLines(Unquote(Strip(response)))))

\* the try block of _make_llm_call: any exception gives ""
MadeCall(reply, cleaned) ==
    IF reply.kind # "content" THEN "" ELSE IF cleaned.ok THEN cleaned.text ELSE ""

_make_llm_call(self) ==
    IF ~self.api_key THEN "" ELSE MadeCall(self.reply, _clean_llm_response(self.reply.text))

generate_block_description(self, content_type) ==
    IF ~self.api_key THEN FALLBACK_DESCRIPTIONS(content_type) ELSE _make_llm_call(self)

generate_level_description(self, level) ==
    IF ~self.api_key THEN FALLBACK_LEVEL_DESCRIPTIONS(level) ELSE _make_llm_call(self)

\* without an api key: FALLBACK_EVENT_DESCRIPTION is a str and .get on it raises AttributeError
generate_event_description(self, event_info) ==
    IF ~self.api_key THEN TextRaise ELSE TextOk(_make_llm_call(self))

\* the emoji that starts the text is left out
FALLBACK_SUBJECT_LINE == "New Courses Available!"
FALLBACK_PREVIEW_TEXT == "New courses and fun events this July"

\* the dash of the text is written "-"
FALLBACK_NEWSLETTER_SUMMARY ==
    "Check out what's coming up this month - from new tennis courses to help you improve your game!"

generate_subject_line(self, html_content) ==
    IF ~self.api_key THEN FALLBACK_SUBJECT_LINE ELSE _make_llm_call(self)

generate_preview_text(self, html_content) ==
    IF ~self.api_key THEN FALLBACK_PREVIEW_TEXT ELSE _make_llm_call(self)

\* with an api key and no html_content, prompt is not bound and the call raises
\* UnboundLocalError
generate_newsletter_summary(self, html_content) ==
    IF ~self.api_key THEN TextOk(FALLBACK_NEWSLETTER_SUMMARY)
    ELSE IF html_content = "" THEN TextRaise
    ELSE TextOk(_make_llm_call(self))

----------------------------------------------------------------------------
(* HTMLGenerator *)

\* course.get(key, default)
Get(course, key, default) == IF key \in DOMAIN course THEN course[key] ELSE default

SKILL_LEVEL_ORDER == <<"Beginner", "Improver", "Intermediate", "Advanced">>

\* SKILL_LEVELS[skill_level]
SKILL_LEVELS(skill_level) ==
    CASE skill_level = "Beginner" -> 1 []
         skill_level = "Improver" -> 4 []
         skill_level = "Intermediate" -> 2 []
         skill_level = "Advanced" -> 3

ADULT_BOOKING_URL == "https://clubspark.lta.org.uk/VamosTennis/Coaching/Adult"
JUNIOR_BOOKING_URL == "https://clubspark.lta.org.uk/VamosTennis/Coaching/Junior"

\* JUNIOR_COLORS.values(), in the order of the dict; the emoji that starts each text and the
\* en dashes are left out or written "-"
JUNIOR_COLORS ==
    <<"Blue (4-6) - New to tennis",
      "Red (6-8) - Rallying, volleying, serving",
      "Orange (8-11) - Hitting from mid-court and learning tactics. Great for beginners and improvers.",
      "Green (11-14) - Playing on full-size courts with standard balls. All levels welcome, with drills matched to ability.">>

FallbackDate == "2025-08-03T00:00:00.000Z"

\* hour, minute = time_str.split(':'); hour = int(hour): a ValueError gives time_str back
FormatHour(time_str, parts) ==
    IF Len(parts) # 2 \/ ~IsIntLit(Strip(parts[1])) THEN time_str
    ELSE IF IntLit(Strip(parts[1])) > 12 THEN IntText(IntLit(Strip(parts[1])) - 12) \o "pm"
    ELSE IF IntLit(Strip(parts[1])) = 12 THEN "12pm"
    ELSE IF IntLit(Strip(parts[1])) = 0 THEN "12am"
    ELSE IntText(IntLit(Strip(parts[1]))) \o "am"

\* _format_time, then the text the f-string writes; ':' in a value that is no text raises
\* TypeError and the value comes back as it is
_format_time(time) ==
    IF time.t # "str" THEN AsStr(time)
    ELSE IF Contains(time.s, ":") THEN FormatHour(time.s, Split(time.s, ":"))
    ELSE time.s

\* the mark decided as the Limited Spots column is, from more than 8 participants
LimitedMarkAbove8(spots) ==
    IF IsNumber(spots) /\ spots.n > 8 THEN " <strong>(Limited spots!)</strong>" ELSE ""

LimitedMark(spots) ==
    IF IsNumber(spots) /\ spots.n >= 7 /\ spots.n < 10 THEN " <strong>(Limited spots!)</strong>" ELSE ""

FullMark(spots) ==
    IF IsNumber(spots) /\ spots.n >= 10 THEN " <strong>(Full!)</strong>" ELSE ""

ItemText(venue, start_date, time, duration, spots, include_venue) ==
    IF include_venue
    THEN "<li><strong>" \o venue \o "</strong> - starting " \o start_date \o " at " \o time
             \o " (" \o duration \o ")" \o LimitedMark(spots) \o FullMark(spots) \o "</li>"
    ELSE "<li>" \o start_date \o " at " \o time
             \o " (" \o duration \o ")" \o LimitedMark(spots) \o FullMark(spots) \o "</li>"

_format_course_item(course, include_venue) ==
    ItemText(AsStr(Get(course, "Venue", CellStr("Unknown Venue"))),
             AsStr(Get(course, "Formatted Start Date", Get(course, "Start Date", CellStr("")))),
             _format_time(Get(course, "Time", CellStr(""))),
             AsStr(Get(course, "Duration Text", CellStr(""))),
             Get(course, "Active Participants", CellInt(0)),
             include_venue)

\* for _, course in courses.iterrows(): html_parts.append(self._format_course_item(...))
Items(courses, include_venue) ==
    [i \in 1..Len(courses.rows) |-> _format_course_item(courses.rows[i], include_venue)]

\* the date of the earliest text, as '%Y-%m-%dT00:00:00.000Z'
Instant(date_obj) ==
    IF date_obj.ok
    THEN ToString(date_obj.y) \o "-" \o Pad2(date_obj.m) \o "-" \o Pad2(date_obj.d) \o "T00:00:00.000Z"
    ELSE FallbackDate

InstantOf(earliest_date) ==
    IF Contains(earliest_date, "/") THEN Instant(StrptimeDMY(earliest_date))
    ELSE Instant(StrptimeYMD(earliest_date))

\* courses_df['Start Date'].min() is the least text of the column; a column without any text
\* gives nan, and a column of texts and missing values makes min() raise TypeError
EarliestOf(dates) ==
    IF \A i \in 1..Len(dates) : dates[i].t = "str"
    THEN InstantOf(TextMin([i \in 1..Len(dates) |-> dates[i].s]))
    ELSE FallbackDate

_extract_earliest_date(df) ==
    IF df.rows = <<>> THEN FallbackDate
    ELSE EarliestOf(Eval(Column(df, "Start Date")))

Button(url, button_text) ==
    "\n        <p style=\"text-align: center;\">\n            <a href=\"" \o url
        \o "\" class=\"cta-button\">" \o button_text \o "</a>\n        </p>\n        "

generate_booking_button(skill_level, df) ==
    IF skill_level \in Range(SKILL_LEVEL_ORDER)
    THEN Button(ADULT_BOOKING_URL \o "?skill-level%5B%5D=" \o ToString(SKILL_LEVELS(skill_level))
                    \o "&date-range[]=%22" \o _extract_earliest_date(df) \o "%22",
                "Book " \o skill_level)
    ELSE Button(ADULT_BOOKING_URL, "Book Your Place")

generate_junior_booking_button == Button(JUNIOR_BOOKING_URL, "Book Junior Courses")

\* the keys of courses.groupby(group_by), sorted; a missing value is no key
GroupNames(courses, group_by) ==
    SortedTexts({courses.rows[i][group_by].s :
                    i \in {k \in 1..Len(courses.rows) : courses.rows[k][group_by].t = "str"}})

\* the rows of one group, in the order of the table
GroupCourses(courses, group_by, group_name) ==
    Filter(courses, [i \in 1..Len(courses.rows) |-> EqualsText(courses.rows[i][group_by], group_name)])

\* self.SKILL_LEVEL_ORDER.index(x[0]) if x[0] in self.SKILL_LEVEL_ORDER else 999
OrderKey(group_name) ==
    IF group_name \in Range(SKILL_LEVEL_ORDER)
    THEN (CHOOSE k \in 1..Len(SKILL_LEVEL_ORDER) : SKILL_LEVEL_ORDER[k] = group_name) - 1
    ELSE 999

RECURSIVE InsertByKey(_, _)
InsertByKey(sorted, x) ==
    IF sorted = <<>> THEN <<x>>
    ELSE IF OrderKey(sorted[Len(sorted)]) <= OrderKey(x) THEN Append(sorted, x)
    ELSE Append(InsertByKey(SubSeq(sorted, 1, Len(sorted) - 1), x), sorted[Len(sorted)])

\* the groups left in the order groupby gives them
SortByKeyForgotten(names) == names

RECURSIVE SortByKey(_)
\* sorted_groups.sort(key=...): a stable sort
SortByKey(names) ==
    IF names = <<>> THEN <<>>
    ELSE InsertByKey(SortByKey(SubSeq(names, 1, Len(names) - 1)), names[Len(names)])

NotUnknown(names) ==
    LET Known(name) == name # "Unknown"
    IN  SelectSeq(names, Known)

\* the groups of the adults block, in the order they are written
sorted_groups(courses) == SortByKey(NotUnknown(GroupNames(courses, "Skill Level")))

\* if level_description: html_parts.append(f'<p>{level_description}</p>')
DescriptionParts(level_description) ==
    IF level_description # "" THEN <<"<p>" \o level_description \o "</p>">> ELSE <<>>

LevelDescriptionParts(self, group_name) ==
    IF self.attached THEN DescriptionParts(generate_level_description(self, group_name)) ELSE <<>>

\* one skill level: heading, description, the items, and the booking button, which is
\* handed the whole table
SkillLevelParts(self, courses, group_name, include_venue) ==
    <<"<h3>" \o group_name \o "</h3>">>
        \o LevelDescriptionParts(self, group_name)
        \o <<"<ul>">> \o Items(GroupCourses(courses, "Skill Level", group_name), include_venue)
        \o <<"</ul>">>
        \o <<generate_booking_button(group_name, courses)>>

RECURSIVE SkillLevelGroups(_, _, _, _)
SkillLevelGroups(self, courses, names, include_venue) ==
    IF names = <<>> THEN <<>>
    ELSE SkillLevelGroups(self, courses, SubSeq(names, 1, Len(names) - 1), include_venue)
             \o SkillLevelParts(self, courses, names[Len(names)], include_venue)

RECURSIVE OtherGroups(_, _, _, _)
\* grouping by another column: no ordering, no description, no button
OtherGroups(courses, group_by, names, include_venue) ==
    IF names = <<>> THEN <<>>
    ELSE OtherGroups(courses, group_by, SubSeq(names, 1, Len(names) - 1), include_venue)
             \o <<"<h3>" \o names[Len(names)] \o "</h3>", "<ul>">>
             \o Items(GroupCourses(courses, group_by, names[Len(names)]), include_venue)
             \o <<"</ul>">>

\* group_by = "" stands for None
_generate_course_list(self, courses, group_by, include_venue) ==
    IF group_by = "Skill Level"
    THEN SkillLevelGroups(self, courses, sorted_groups(courses), include_venue)
    ELSE IF group_by # ""
    THEN OtherGroups(courses, group_by, NotUnknown(GroupNames(courses, group_by)), include_venue)
    ELSE <<"<ul>">> \o Items(courses, include_venue) \o <<"</ul>">>

AgeGroups ==
    <<"<p><strong>Age Groups:</strong></p>", "<ul>">>
        \o [k \in 1..Len(JUNIOR_COLORS) |-> "<li>" \o JUNIOR_COLORS[k] \o "</li>"]
        \o <<"</ul>">>

\* the names of all the rows, empty ones too
course_names_unfiltered(courses) ==
    [i \in 1..Len(courses.rows) |-> AsStr(Get(courses.rows[i], "Name", CellStr("")))]

\* the names that are not empty, in the order of the table
course_names(courses) ==
    LET Named(name) == name # ""
    IN  SelectSeq([i \in 1..Len(courses.rows) |-> AsStr(Get(courses.rows[i], "Name", CellStr("")))],
                  Named)

AvailableCourses(names) ==
    IF names = <<>> THEN <<>>
    ELSE <<"<p><strong>Available Courses:</strong></p>", "<ul>">>
             \o [k \in 1..Len(names) |-> "<li>" \o names[k] \o "</li>"]
             \o <<"</ul>">>

_generate_junior_explanation(courses) == AgeGroups \o AvailableCourses(course_names(courses))

\* html_parts of generate_course_block for a table with rows: a block type without a
\* configuration of its own gets the one of 'adults'
CourseBlockParts(self, courses, block_type) ==
    IF block_type = "juniors"
    THEN <<"<h2>Term Time Junior Courses</h2>">> \o _generate_junior_explanation(courses)
             \o <<generate_junior_booking_button>>
    ELSE <<"<h2>Adult Courses</h2>">> \o _generate_course_list(self, courses, "Skill Level", TRUE)

generate_course_block(self, courses, block_type) ==
    IF courses.rows = <<>> THEN "" ELSE Join(CourseBlockParts(self, courses, block_type), "\n")

\* html_parts of generate_events_block for a table with rows
EventsBlockParts(self, courses) ==
    (IF self.attached THEN <<"<p>" \o generate_block_description(self, "events") \o "</p>">> ELSE <<>>)
        \o _generate_course_list(self, courses, "", TRUE)

\* the events block without its check for an empty table
generate_events_block_unchecked(self, courses) == Join(EventsBlockParts(self, courses), "\n")

generate_events_block(self, courses) ==
    IF courses.rows = <<>> THEN "" ELSE Join(EventsBlockParts(self, courses), "\n")

WrapperOpen ==
    "<div style=\"font-family: Arial, sans-serif; max-width: 600px; margin: 0 auto; width: 100%; box-sizing: border-box; text-align: left;\">"

\* for block in blocks: if block.strip(): html_parts.append(block)
NonBlank(blocks) ==
    LET HasText(block) == Strip(block) # ""
    IN  SelectSeq(blocks, HasText)

summary_html(summary) ==
    "\n        <div style=\"margin: 40px 0;\">\n          <p>" \o summary \o "</p>\n        </div>\n        "

\* the document without a summary
PlainParts(blocks) == <<WrapperOpen>> \o NonBlank(blocks) \o <<"</div>">>

\* the document with a summary: the title, if there is one, then the summary, then the blocks
SummaryParts(blocks, subject, summary) ==
    <<WrapperOpen>> \o (IF subject # "" THEN <<"<h1>" \o subject \o "</h1>">> ELSE <<>>)
        \o <<summary_html(summary)>> \o NonBlank(blocks) \o <<"</div>">>

\* llm_helper.generate_newsletter_summary_from_html(complete_html): LLMHelper has no method
\* of this name, the call raises AttributeError
generate_newsletter_summary_from_html(self, complete_html) == TextRaise

\* the elif llm_helper branch: an exception, or an empty summary, leaves the document as it is
WithHelperSummary(blocks, subject, summary_text) ==
    IF summary_text.ok /\ summary_text.text # ""
    THEN SummaryParts(blocks, subject, summary_text.text)
    ELSE PlainParts(blocks)

\* the document with the title put in whenever one is given, summary or not
NewsletterPartsTitled(blocks, subject, helper, custom_summary) ==
    IF custom_summary # "" THEN SummaryParts(blocks, subject, custom_summary)
    ELSE <<WrapperOpen>> \o (IF subject # "" THEN <<"<h1>" \o subject \o "</h1>">> ELSE <<>>)
             \o NonBlank(blocks) \o <<"</div>">>

\* html_parts of generate_newsletter_html; "" stands for None
NewsletterParts(blocks, subject, helper, custom_summary) ==
    IF custom_summary # "" THEN SummaryParts(blocks, subject, custom_summary)
    ELSE IF helper.attached
    THEN WithHelperSummary(blocks, subject,
                           generate_newsletter_summary_from_html(helper, Join(PlainParts(blocks), "\n")))
    ELSE PlainParts(blocks)

generate_newsletter_html(blocks, subject, helper, custom_summary) ==
    Join(NewsletterParts(blocks, subject, helper, custom_summary), "\n")

----------------------------------------------------------------------------
(* generate_single_event_html of app.py *)

\* description = "" unless the helper is there and its call returns
EventDescription(helper, generated) ==
    IF helper.attached /\ generated.ok THEN generated.text ELSE ""

SingleEventParts(event, description) ==
    <<"<div style=\"margin: 40px 0;\">", "<h2>" \o event.title \o "</h2>">>
        \o (IF event.image # ""
            THEN <<"<img src=\"" \o event.image \o "\" alt=\"" \o event.title
                     \o "\" style=\"width: 100%; max-width: 600px; margin: 10px auto; display: block;\" />">>
            ELSE <<>>)
        \o (IF description # "" THEN <<"<p>" \o description \o "</p>">> ELSE <<>>)
        \o (IF event.url # ""
            THEN <<"\n        <p style=\"text-align: center;\">\n            <a href=\"" \o event.url
                     \o "\" class=\"cta-button\">Book Your Spot</a>\n        </p>\n        ">>
            ELSE <<>>)
        \o <<"</div>">>

\* html_parts of generate_single_event_html
EventHtmlParts(event, helper) ==
    SingleEventParts(event,
                     EventDescription(helper,
                                      generate_event_description(helper,
                                                                 [description |-> event.description])))

generate_single_event_html(event, helper) == Join(EventHtmlParts(event, helper), "\n")

----------------------------------------------------------------------------
(* The CSV exports that are uploaded: one text per cell, in the column order of    *)
(* AllFields; a header variant says which fields the file carries, under which    *)
(* header text.                                                                  *)

ExportColumns ==
    <<"Name", "Status", "Start Date", "Time", "Type", "Day", "Classes", "Active Participants">>

AllFields == ExportColumns \o <<"Coach">>

FieldPos(field) == CHOOSE k \in 1..Len(AllFields) : AllFields[k] = field

BaseRow == <<"Belair Park Adult Beginner Course", "Upcoming", "04/08/2025", "18:00",
             "Adult", "Monday", "6", "9", "Ana">>

With(row, field, text) == [row EXCEPT ![FieldPos(field)] = text]

\* an upcoming course, in the column order of AllFields
CourseRow(name, date, time, type, classes, participants) ==
    <<name, "Upcoming", date, time, type, "Monday", classes, participants, "Ana">>

StatusTexts == {"upcoming", "UPCOMING", " Upcoming ", "Completed", ""}
TypeAndClasses == {<<"Junior", "8">>, <<"Drop-in", "1">>, <<"Event", "1">>, <<"Tennis Session", "6">>,
                   <<"Camp", "3">>, <<"Adult", "1">>, <<" ADULT ", "6">>, <<"", "6">>}
ClassesTexts == {"abc", "", "0", "-2"}
ParticipantsTexts == {"6", "7", "8", "10", "12", "abc"}
NameTexts == {"Dulwich Park Adult Intermediate Course", "Tennis Social"}
DateTexts == {"2025-08-04", "not-a-date", "31/02/2025", ""}

RowPool ==
    {BaseRow}
    \cup {With(BaseRow, "Status", x) : x \in StatusTexts}
    \cup {With(With(BaseRow, "Type", x[1]), "Classes", x[2]) : x \in TypeAndClasses}
    \cup {With(BaseRow, "Classes", x) : x \in ClassesTexts}
    \cup {With(BaseRow, "Active Participants", x) : x \in ParticipantsTexts}
    \cup {With(BaseRow, "Name", x) : x \in NameTexts}
    \cup {With(BaseRow, "Start Date", x) : x \in DateTexts}

\* a header: the fields carried, each under its own name unless renamed
Carry(fields) == [k \in 1..Len(fields) |-> [name |-> fields[k], field |-> fields[k]]]

Without(fields, field) ==
    LET Other(f) == f # field
    IN  SelectSeq(fields, Other)

Renamed(header, field, name) ==
    [k \in 1..Len(header) |-> IF header[k].field = field THEN [header[k] EXCEPT !.name = name]
                              ELSE header[k]]

HeaderPool ==
    {Carry(ExportColumns), Carry(AllFields)}
    \cup {Carry(Without(ExportColumns, c)) : c \in Range(ExportColumns)}
    \cup {Renamed(Carry(ExportColumns), "Name", " Name "),
          Renamed(Carry(AllFields), "Status", "Status ")}

RowLists == UNION {[1..n -> RowPool] : n \in 0..MaxRows}

\* the rows under the headers of HeaderPool: what the header check does is decided before
\* any row is looked at
FewRowLists == UNION {[1..n -> {BaseRow, With(BaseRow, "Status", "Completed")}] : n \in 0..MaxRows}

MakeFile(header, rows) ==
    [header |-> [k \in 1..Len(header) |-> header[k].name],
     rows   |-> [i \in 1..Len(rows) |->
                   [k \in 1..Len(header) |-> rows[i][FieldPos(header[k].field)]]]]

RawFiles ==
    {MakeFile(Carry(ExportColumns), rows) : rows \in RowLists}
    \cup {MakeFile(h, rows) : h \in HeaderPool, rows \in FewRowLists}

NoFile == [header |-> <<>>, rows |-> <<>>]

\* the uploads of the workflow runs: a handful of exports, good and bad
FlowFiles ==
    {MakeFile(Carry(ExportColumns), <<BaseRow, With(With(BaseRow, "Type", "Junior"), "Classes", "8")>>),
     MakeFile(Carry(ExportColumns), <<With(With(BaseRow, "Type", "Drop-in"), "Classes", "1")>>),
     MakeFile(Carry(ExportColumns),
              <<BaseRow, CourseRow("Dulwich Park Tournament", "08/09/2025", "14:00", "Event", "1", "12")>>),
     MakeFile(Carry(ExportColumns), <<With(BaseRow, "Status", "Completed")>>),
     MakeFile(Carry(ExportColumns), <<With(BaseRow, "Status", "")>>),
     MakeFile(Carry(Without(ExportColumns, "Day")), <<BaseRow>>)}

\* the rows of the exports that are rendered: adult courses of every level and of none, with
\* dates of both formats and dates that do not parse, junior courses with and without a
\* name, and a one-off event
CourseRowPool ==
    {BaseRow,
     CourseRow("Belair Park Adult Beginner Course", "2025-08-01", "09:30", "Adult", "6", "12"),
     CourseRow("Dulwich Park Adult Improver Course", "01/13/2025", "12:00", "Adult", "4", "6"),
     CourseRow("Belair Park Adult Improver Course", "11/08/2025", "19:00", "Adult", "4", "8"),
     CourseRow("Dulwich Park Adult Advanced Course", "25/07/2025", "18:00", "Adult", "6", "7"),
     CourseRow("Adult Cardio Tennis", "not-a-date", "TBC", "Adult", "6", "10"),
     CourseRow("Belair Park Junior Red Ball Course", "18/08/2025", "16:00", "Junior", "8", "8"),
     CourseRow(" ", "25/08/2025", "17:00", "Junior", "8", "12"),
     CourseRow("Dulwich Park Tournament", "08/09/2025", "14:00", "Event", "1", "12")}

CourseFiles ==
    {MakeFile(Carry(ExportColumns), rows) : rows \in UNION {[1..n -> CourseRowPool] : n \in 1..MaxCourses}}

\* the blocks handed to the assembler: HTML, empty and blank texts
BlockPool == {"", "  \n", "<h2>Adult Courses</h2>", "<p>Summer Tournament</p>"}

BlockLists == UNION {[1..n -> BlockPool] : n \in 0..MaxBlocks}

\* "" stands for None
SubjectPool == {"", "New Tennis Courses Available!"}
SummaryPool == {"", "Check out what's coming up this month."}

\* the helpers: none, one without an api key, and one with a key whose completion answers
\* with a text, with a text that cleans to nothing, with no content, or raises
ReplyPool == {Content("Great for newcomers."), Content("\"\""), NoContent, ApiError}

Helpers == {NoHelper, LLMHelper(FALSE, NoContent)} \cup {LLMHelper(TRUE, reply) : reply \in ReplyPool}

\* init_components always builds an LLMHelper, with the api key of the secrets or without one
FlowHelpers == {LLMHelper(FALSE, NoContent), LLMHelper(TRUE, Content("Great for newcomers.")),
                LLMHelper(TRUE, ApiError)}

\* the event of slot n as app_flow builds it from its inputs
SlotEvent(n, title, url, image, description) ==
    [id |-> "event_" \o ToString(n), title |-> title, url |-> url, image |-> image,
     description |-> description]

EventPool ==
    {SlotEvent(1, "Summer Tournament", "https://clubspark.lta.org.uk/VamosTennis/Events", "",
           "Saturday 15th August, 2pm at Belair Park."),
     SlotEvent(2, "Event 2", "", "https://vamostennis.co.uk/camp.png",
           "Junior Holiday Camp, 9am-3pm at Belair Park.")}

\* for i in range(3): the event slots of the page
Slots == 3

\* what the four widgets of one slot hold
SlotInput(title, description, url, image) ==
    [title |-> title, description |-> description, url |-> url, image |-> image]

EmptySlot == SlotInput("", "", "", "")

\* the title left out of the event: the text of the widget as it is
final_title_unchecked(n, event_title) == event_title

\* event_title.strip() if event_title and event_title.strip() else f"Event {i+1}"
final_title(n, event_title) ==
    IF event_title # "" /\ Strip(event_title) # "" THEN Strip(event_title)
    ELSE "Event " \o ToString(n)

RECURSIVE EventsFrom(_, _)
\* the loop over the slots from slot n on: if event_description: events.append({...})
EventsFrom(inputs, n) ==
    IF n > Len(inputs) THEN <<>>
    ELSE (IF inputs[n].description # ""
          THEN <<SlotEvent(n, final_title(n, inputs[n].title), inputs[n].url, inputs[n].image,
                           inputs[n].description)>>
          ELSE <<>>) \o EventsFrom(inputs, n + 1)

\* events, as the run builds it from the widgets
EventsOf(inputs) == EventsFrom(inputs, 1)

\* a slot left empty, filled in, filled in with a title of blanks, and with a title only
SlotInputPool ==
    {EmptySlot,
     SlotInput("Summer Tournament", "Saturday 15th August, 2pm at Belair Park.",
               "https://clubspark.lta.org.uk/VamosTennis/Events", ""),
     SlotInput("  ", "Junior Holiday Camp, 9am-3pm at Belair Park.", "",
               "https://vamostennis.co.uk/camp.png"),
     SlotInput("Doubles Night", "", "", "")}

\* the slot of the generation runs: empty, or filled in
FlowSlotPool ==
    {EmptySlot,
     SlotInput("Summer Tournament", "Saturday 15th August, 2pm at Belair Park.",
               "https://clubspark.lta.org.uk/VamosTennis/Events", "")}

----------------------------------------------------------------------------
(* app_flow *)

NoSelection == [content_type |-> "", df |-> NoTable]

\* nothing generated yet: no html_blocks and no newsletter_html in st.session_state
NoGeneration == [courses |-> NoTable, content_order |-> <<>>, fragments |-> <<>>, html_blocks |-> <<>>,
                 newsletter_html |-> ""]

\* html_parts is the list the call joined, <<>> when it returned before building one
NoRender == [op |-> "", block_type |-> "", courses |-> NoTable, blocks |-> <<>>, subject |-> "",
             custom_summary |-> "", event |-> <<>>, html_parts |-> <<>>, html |-> ""]

\* [e['id'] for e in events]
EventIds(evs) == [k \in 1..Len(evs) |-> evs[k].id]
NoOrder == <<"(unset)">>

\* item.startswith('event_')
IsEventKey(item) == Len(item) >= 6 /\ SubSeq(item, 1, 6) = "event_"

\* [k for k, v in content_types.items() if v['available']]
AvailableKeys(content_types) ==
    LET Available(k) == content_types[k].available
    IN  SelectSeq(ContentTypeKeys, Available)

\* default_order: 'adults' first, then the other available content types, then the events
DefaultOrder(available, event_ids) ==
    LET NotAdults(k) == k # "adults"
    IN  <<"adults">> \o SelectSeq(available, NotAdults) \o event_ids

RECURSIVE AppendNew(_, _)
\* for event in events: if event_key not in course_order: course_order.append(event_key)
AppendNew(order, event_ids) ==
    IF event_ids = <<>> THEN order
    ELSE AppendNew(IF Head(event_ids) \in Range(order) THEN order ELSE Append(order, Head(event_ids)),
                   Tail(event_ids))

\* the stored order without its event entries, then the current events
ReconciledOrder(order, event_ids) ==
    LET NotEvent(item) == ~IsEventKey(item)
    IN  AppendNew(SelectSeq(order, NotEvent), event_ids)

\* no order read by Step 2 in this run, no reposition since the inputs were last changed
NoOrderLog == [before |-> NoOrder, moved |-> NoOrder]

\* nothing but the widgets on the page
NoPage == [error |-> "", final_blocks |-> <<>>, final_parts |-> <<>>]

\* subject_lines, preview_text and newsletter_summary before Step 4 has run
NoContentStored == [subject_lines |-> "", preview_text |-> "", newsletter_summary |-> ""]

\* courses_df = None; available_content_types = [] at the top of every script run, on an
\* empty page
StartRun ==
    /\ courses_df' = NoTable
    /\ load_error' = NoError
    /\ available_content_types' = <<>>
    /\ page' = NoPage
    /\ pc' = "step1"

\* the user changes the upload, or the widgets of one event slot (or leaves them), and the
\* script runs again; events is built from the widgets in every run
InteractWith(files, editable, pool) ==
    /\ pc = "idle"
    /\ \E f \in files, n \in editable, input \in pool :
          /\ f = uploaded_file \/ input = event_inputs[n]
          /\ uploaded_file' = f
          /\ event_inputs' = [event_inputs EXCEPT ![n] = input]
    /\ events' = EventsOf(event_inputs')
    /\ order_log' = NoOrderLog
    /\ StartRun
    /\ UNCHANGED <<selection, content_order, html_generated, content_generated,
                   llm_helper, generation, rendered, content>>

\* the generation runs: the first slot is left empty or filled in
Interact == InteractWith(FlowFiles \cup {NoFile}, {1}, FlowSlotPool)

\* courses_df = csv_processor.process_csv(uploaded_file), then the content types; an
\* exception leaves courses_df = None and available_content_types = []
Step1Try(loaded) ==
    /\ courses_df' = loaded.df
    /\ load_error' = loaded.error
    /\ available_content_types' =
           IF loaded.ok THEN AvailableKeys(get_content_types(loaded.df)) ELSE <<>>

\* Step 1, the try block around process_csv and get_content_types
Step1 ==
    /\ pc = "step1"
    /\ IF uploaded_file = NoFile
       THEN UNCHANGED <<courses_df, load_error, available_content_types>>
       ELSE Step1Try(process_csv(uploaded_file))
    /\ pc' = "gate"
    /\ UNCHANGED <<uploaded_file, selection, content_order, html_generated, content_generated, llm_helper, events, generation, rendered,
                   event_inputs, content, order_log, page>>

\* the check of courses_df left out: Step 2 is shown in every run
CoursesLoadedUnchecked == TRUE

\* if courses_df is not None
CoursesLoaded == courses_df # NoTable

\* Step 2: the content order is created, or reconciled with the current events
Step2 ==
    /\ pc = "gate"
    /\ CoursesLoaded
    /\ content_order' = IF content_order = NoOrder
                        THEN DefaultOrder(available_content_types, EventIds(events))
                        ELSE ReconciledOrder(content_order, EventIds(events))
    /\ order_log' = [order_log EXCEPT !.before = content_order]
    /\ pc' = "buttons"
    /\ UNCHANGED <<uploaded_file, courses_df, load_error, available_content_types, selection,
                   html_generated, content_generated,
                   llm_helper, events, generation, rendered,
                   event_inputs, content, page>>

\* current_order[i], current_order[j] = current_order[j], current_order[i]
Swap(order, i, j) == [order EXCEPT ![i] = order[j], ![j] = order[i]]

\* a reposition stores the order and reruns the script
Reposition(order) ==
    /\ content_order' = order
    /\ order_log' = [before |-> NoOrder, moved |-> order]
    /\ StartRun
    /\ UNCHANGED <<uploaded_file, selection, html_generated, content_generated,
                   llm_helper, events, generation, rendered, event_inputs, content>>

\* "Move Up" of the entry at position i (the button of the first entry is disabled)
MoveUp(i) ==
    /\ pc = "buttons"
    /\ i \in 2..Len(content_order)
    /\ Reposition(Swap(content_order, i, i - 1))

\* "Move Down" of the entry at position i (the button of the last entry is disabled)
MoveDown(i) ==
    /\ pc = "buttons"
    /\ i \in 1..(Len(content_order) - 1)
    /\ Reposition(Swap(content_order, i, i + 1))

\* else: st.info("Upload your courses CSV to continue...")
NoCourses ==
    /\ pc = "gate"
    /\ ~CoursesLoaded
    /\ pc' = "idle"
    /\ UNCHANGED <<uploaded_file, courses_df, load_error, available_content_types, selection,
                   content_order, html_generated, content_generated,
                   llm_helper, events, generation, rendered,
                   event_inputs, content, order_log, page>>

RECURSIVE RStripS(_)
\* content_type.rstrip('s')
RStripS(s) == IF EndsWith(s, "s") THEN RStripS(SubSeq(s, 1, Len(s) - 1)) ELSE s

\* next((e for e in events if e['id'] == content_type), None), then the event's HTML; ""
\* when there is no such event
EventEntryHtml(evs, helper, content_type) ==
    IF \E k \in 1..Len(evs) : evs[k].id = content_type
    THEN generate_single_event_html(evs[Least({k \in 1..Len(evs) : evs[k].id = content_type})], helper)
    ELSE ""

\* what one entry of the content order adds to html_blocks, "" when it adds nothing: a
\* course entry is rendered by generate_course_block, whatever its content type
EntryHtml(df, evs, helper, content_type) ==
    IF IsEventKey(content_type) THEN EventEntryHtml(evs, helper, content_type)
    ELSE generate_course_block(helper, Filter(df, TypeMask(df, RStripS(content_type))), content_type)

\* what Step 3 stores, with the table and the order it read and the fragment of each entry
Generated(df, order, fragments, html_blocks) ==
    [courses |-> df, content_order |-> order, fragments |-> fragments, html_blocks |-> html_blocks,
     newsletter_html |-> generate_newsletter_html(html_blocks, "", NoHelper, "")]

Fragments(df, order, fragments) ==
    LET Written(html) == html # ""
    IN  Generated(df, order, fragments, SelectSeq(fragments, Written))

\* the except clause that stores what the try block had composed
Step3ExceptStored(stored, composed) == composed

\* except Exception as e: st.error(...); return: nothing is stored
Step3Except(stored, composed) == stored

\* Step 3, "Generate Newsletter HTML": stores the result and reruns the script; an exception
\* raised in the try block (here once the blocks are composed) ends the run with an error
\* on the page
Step3Try(composed, raised) ==
    IF raised
    THEN /\ generation' = Step3Except(generation, composed)
         /\ page' = [page EXCEPT !.error = "Error generating newsletter HTML"]
         /\ pc' = "idle"
         /\ UNCHANGED <<courses_df, load_error, available_content_types, html_generated>>
    ELSE /\ generation' = composed
         /\ html_generated' = TRUE
         /\ StartRun

Step3 ==
    /\ pc = "buttons"
    /\ \E raised \in BOOLEAN :
          Step3Try(Fragments(courses_df, content_order,
                             Eval([k \in 1..Len(content_order) |->
                                     EntryHtml(courses_df, events, llm_helper, content_order[k])])),
                   raised)
    /\ UNCHANGED <<uploaded_file, selection, content_order, content_generated,
                   llm_helper, events, rendered, event_inputs, content, order_log>>

\* the texts of app_flow for a call that gave nothing (the emoji and the dash as in the
\* helper's texts)
SUBJECT_FALLBACK == "New Tennis Courses Available!"
PREVIEW_FALLBACK == "New courses and fun events this month"
SUMMARY_FALLBACK ==
    "Check out what's coming up this month - from new tennis courses to help you improve your game!"

\* the text stored as it came
OrElseNothing(text, fallback) == text

\* subject if subject else "..."
OrElse(text, fallback) == IF text # "" THEN text ELSE fallback

\* the try statement of Step 4: the three texts or their fallbacks, and the fallbacks alone
\* when a call raised
Step4Content(subject, preview, summary) ==
    IF summary.ok
    THEN [subject_lines |-> OrElse(subject, SUBJECT_FALLBACK),
          preview_text |-> OrElse(preview, PREVIEW_FALLBACK),
          newsletter_summary |-> OrElse(summary.text, SUMMARY_FALLBACK)]
    ELSE [subject_lines |-> SUBJECT_FALLBACK, preview_text |-> PREVIEW_FALLBACK,
          newsletter_summary |-> SUMMARY_FALLBACK]

\* what the completion may answer to one call of Step 4: a text, no content, or an exception
Step4Replies(self) ==
    IF self.api_key THEN {Content("Game on."), NoContent, ApiError} ELSE {self.reply}

Answering(self, reply) == [self EXCEPT !.reply = reply]

\* Step 4, "Generate Subject, Preview & Summary": shown once the HTML is generated; each of
\* the three calls gets an answer of its own
Step4With(replies) ==
    /\ pc = "buttons"
    /\ html_generated
    /\ \E subject \in {generate_subject_line(Answering(llm_helper, reply), generation.newsletter_html) :
                          reply \in replies},
          preview \in {generate_preview_text(Answering(llm_helper, reply), generation.newsletter_html) :
                          reply \in replies},
          summary \in {generate_newsletter_summary(Answering(llm_helper, reply),
                                                   generation.newsletter_html) : reply \in replies} :
          content' = Step4Content(subject, preview, summary)
    /\ content_generated' = TRUE
    /\ StartRun
    /\ UNCHANGED <<uploaded_file, selection, content_order, html_generated,
                   llm_helper, events, generation, rendered, event_inputs, order_log>>

\* the generation runs: the completion answers the calls of Step 4 as it answers the others
Step4 == Step4With({llm_helper.reply})

\* the blocks composed again from the order and the events of the run
FinalBlocksRecomposed(stored, recomposed) == recomposed.html_blocks

\* html_blocks = st.session_state.html_blocks
FinalBlocks(stored, recomposed) == stored.html_blocks

\* custom_summary=edited_summary if edited_summary.strip() else None
CustomSummary(edited_summary) == IF Strip(edited_summary) # "" THEN edited_summary ELSE ""

\* what Step 5 displays: the blocks it used and the parts of the document
FinalPage(html_blocks, selected_subject, edited_summary) ==
    [error |-> "", final_blocks |-> html_blocks,
     final_parts |-> NewsletterParts(html_blocks, selected_subject, NoHelper,
                                     CustomSummary(edited_summary))]

\* Step 5, "Generate Final Newsletter": shown once Step 4 has generated content; the
\* subject and the summary are the texts of their widgets, the stored ones unless edited
Step5 ==
    /\ pc = "buttons"
    /\ html_generated
    /\ content_generated
    /\ \E edited_summary \in {content.newsletter_summary, "  "} :
          page' = FinalPage(FinalBlocks(generation,
                                        Fragments(courses_df, content_order,
                                                  [k \in 1..Len(content_order) |->
                                                      EntryHtml(courses_df, events, llm_helper,
                                                                content_order[k])])),
                            content.subject_lines, edited_summary)
    /\ pc' = "idle"
    /\ UNCHANGED <<uploaded_file, courses_df, load_error, available_content_types, selection,
                   content_order, html_generated, content_generated,
                   llm_helper, events, generation, rendered, event_inputs, content, order_log>>

\* the run ends with no button pressed
EndRun ==
    /\ pc = "buttons"
    /\ pc' = "idle"
    /\ UNCHANGED <<uploaded_file, courses_df, load_error, available_content_types, selection,
                   content_order, html_generated, content_generated,
                   llm_helper, events, generation, rendered,
                   event_inputs, content, order_log, page>>

\* a caller asks for the courses of one content type of the loaded table
GetCoursesByType(content_type) ==
    /\ CoursesLoaded
    /\ selection = NoSelection
    /\ selection' = [content_type |-> content_type, df |-> get_courses_by_type(courses_df, content_type)]
    /\ UNCHANGED <<uploaded_file, courses_df, load_error, available_content_types, pc,
                   content_order, html_generated, content_generated,
                   llm_helper, events, generation, rendered,
                   event_inputs, content, order_log, page>>

InitSession ==
    /\ courses_df = NoTable
    /\ load_error = NoError
    /\ available_content_types = <<>>
    /\ selection = NoSelection
    /\ content_order = NoOrder
    /\ html_generated = FALSE
    /\ content_generated = FALSE
    /\ events = <<>>
    /\ generation = NoGeneration
    /\ rendered = NoRender
    /\ event_inputs = [n \in 1..Slots |-> EmptySlot]
    /\ content = NoContentStored
    /\ order_log = NoOrderLog
    /\ page = NoPage

\* the pipeline on every export of RawFiles: load it, then classify the table
Init ==
    /\ uploaded_file \in RawFiles
    /\ pc = "step1"
    /\ llm_helper = NoHelper
    /\ InitSession

Next ==
    \/ Step1
    \/ \E content_type \in Range(ContentTypeKeys) : GetCoursesByType(content_type)

Spec == Init /\ [][Next]_vars

----------------------------------------------------------------------------
(* The composer called on its own: a table is loaded and classified, and the blocks *)
(* are rendered from the classified rows, as the component tests do.                *)

Render(op, block_type, courses, html_parts, html) ==
    [NoRender EXCEPT !.op = op, !.block_type = block_type, !.courses = courses,
                     !.html_parts = html_parts, !.html = html]

\* a table written by the caller, as create_sample_data of the tests does: here a loaded
\* table with the skill level of one row set to a name of the caller's
CreateSampleData ==
    /\ pc = "gate"
    /\ CoursesLoaded
    /\ selection = NoSelection
    /\ rendered = NoRender
    /\ \A i \in 1..Len(courses_df.rows) : courses_df.rows[i]["Skill Level"].s # "Cardio"
    /\ \E i \in 1..Len(courses_df.rows) :
          courses_df' = [courses_df EXCEPT !.rows[i]["Skill Level"] = CellStr("Cardio")]
    /\ UNCHANGED <<uploaded_file, load_error, available_content_types, selection, pc,
                   content_order, html_generated, content_generated,
                   llm_helper, events, generation, rendered,
                   event_inputs, content, order_log, page>>

\* html_generator.generate_course_block(courses, block_type) on the rows of a category
GenerateCourseBlock ==
    /\ selection.content_type \in {"adults", "juniors", "events"}
    /\ rendered = NoRender
    /\ rendered' = Render("generate_course_block", selection.content_type, selection.df,
                          IF selection.df.rows = <<>> THEN <<>>
                          ELSE CourseBlockParts(llm_helper, selection.df, selection.content_type),
                          generate_course_block(llm_helper, selection.df, selection.content_type))
    /\ UNCHANGED <<uploaded_file, courses_df, load_error, available_content_types, selection, pc,
                   content_order, html_generated, content_generated,
                   llm_helper, events, generation,
                   event_inputs, content, order_log, page>>

\* html_generator.generate_events_block(event_courses)
GenerateEventsBlock ==
    /\ selection.content_type \in {"events", "drop_ins"}
    /\ rendered = NoRender
    /\ rendered' = Render("generate_events_block", "events", selection.df,
                          IF selection.df.rows = <<>> THEN <<>>
                          ELSE EventsBlockParts(llm_helper, selection.df),
                          generate_events_block(llm_helper, selection.df))
    /\ UNCHANGED <<uploaded_file, courses_df, load_error, available_content_types, selection, pc,
                   content_order, html_generated, content_generated,
                   llm_helper, events, generation,
                   event_inputs, content, order_log, page>>

\* html_generator.generate_newsletter_html(blocks, subject, llm_helper, custom_summary),
\* called with blocks of the caller's before any upload
GenerateNewsletterHtml(blocks, subject, custom_summary) ==
    /\ uploaded_file = NoFile
    /\ rendered = NoRender
    /\ rendered' = [NoRender EXCEPT !.op = "generate_newsletter_html", !.blocks = blocks,
                                    !.subject = subject, !.custom_summary = custom_summary,
                                    !.html_parts = NewsletterParts(blocks, subject, llm_helper,
                                                                   custom_summary),
                                    !.html = generate_newsletter_html(blocks, subject, llm_helper,
                                                                      custom_summary)]
    /\ UNCHANGED <<uploaded_file, courses_df, load_error, available_content_types, selection, pc,
                   content_order, html_generated, content_generated,
                   llm_helper, events, generation,
                   event_inputs, content, order_log, page>>

\* generate_single_event_html(event, llm_helper), called before any upload
GenerateSingleEventHtml(event) ==
    /\ uploaded_file = NoFile
    /\ rendered = NoRender
    /\ rendered' = [NoRender EXCEPT !.op = "generate_single_event_html", !.event = event,
                                    !.html_parts = EventHtmlParts(event, llm_helper),
                                    !.html = generate_single_event_html(event, llm_helper)]
    /\ UNCHANGED <<uploaded_file, courses_df, load_error, available_content_types, selection, pc,
                   content_order, html_generated, content_generated,
                   llm_helper, events, generation,
                   event_inputs, content, order_log, page>>

InitHtml ==
    /\ uploaded_file \in CourseFiles \cup {NoFile}
    /\ pc = "step1"
    /\ llm_helper \in Helpers
    /\ InitSession

NextHtml ==
    \/ Step1
    \/ CreateSampleData
    \/ \E content_type \in Range(ContentTypeKeys) : GetCoursesByType(content_type)
    \/ GenerateCourseBlock
    \/ GenerateEventsBlock
    \/ \E blocks \in BlockLists, subject \in SubjectPool, custom_summary \in SummaryPool :
          GenerateNewsletterHtml(blocks, subject, custom_summary)
    \/ \E event \in EventPool : GenerateSingleEventHtml(event)

SpecHtml == InitHtml /\ [][NextHtml]_vars

\* the workflow: script runs over the uploads of FlowFiles
InitFlow ==
    /\ uploaded_file = NoFile
    /\ pc = "idle"
    /\ llm_helper \in FlowHelpers
    /\ InitSession

NextFlow ==
    \/ Interact
    \/ Step1
    \/ Step2
    \/ NoCourses
    \/ Step3
    \/ Step4
    \/ Step5
    \/ EndRun

SpecFlow == InitFlow /\ [][NextFlow]_vars

\* the uploads that load: adults and juniors, a drop-in alone, adults and a one-off event
OrderFiles == {f \in FlowFiles : process_csv(f).ok}

\* the event slots: script runs over every filling of the slots, with no upload
InteractSlots == InteractWith({NoFile}, 1..Slots, SlotInputPool)

NextSlots ==
    \/ InteractSlots
    \/ Step1
    \/ NoCourses

\* the content order: script runs over the uploads that load and over the slots left empty
\* or filled in, with the reposition buttons; nothing is generated in these runs
InteractOrder == InteractWith(OrderFiles \cup {NoFile}, 1..Slots, FlowSlotPool)

InitOrder ==
    /\ uploaded_file = NoFile
    /\ pc = "idle"
    /\ llm_helper = LLMHelper(FALSE, NoContent)
    /\ InitSession

NextOrder ==
    \/ InteractOrder
    \/ Step1
    \/ Step2
    \/ NoCourses
    \/ \E i \in DOMAIN content_order : MoveUp(i)
    \/ \E i \in DOMAIN content_order : MoveDown(i)
    \/ EndRun

SpecOrder == InitOrder /\ [][NextOrder]_vars

SpecSlots == InitOrder /\ [][NextSlots]_vars

\* the uploads of the content runs: adults and juniors, adults and a one-off event
ContentFiles ==
    {MakeFile(Carry(ExportColumns), <<BaseRow, With(With(BaseRow, "Type", "Junior"), "Classes", "8")>>),
     MakeFile(Carry(ExportColumns),
              <<BaseRow, CourseRow("Dulwich Park Tournament", "08/09/2025", "14:00", "Event", "1", "12")>>)}

\* Steps 3 to 5: script runs over two uploads, with a completion that answers each call of
\* Step 4 on its own
InteractContent == InteractWith(ContentFiles \cup {NoFile}, {1}, FlowSlotPool)

Step4Any == Step4With(Step4Replies(llm_helper))

InitContent ==
    /\ uploaded_file = NoFile
    /\ pc = "idle"
    /\ llm_helper \in {LLMHelper(FALSE, NoContent), LLMHelper(TRUE, Content("Great for newcomers."))}
    /\ InitSession

NextContent ==
    \/ InteractContent
    \/ Step1
    \/ Step2
    \/ NoCourses
    \/ Step3
    \/ Step4Any
    \/ Step5
    \/ EndRun

SpecContent == InitContent /\ [][NextContent]_vars

----------------------------------------------------------------------------
(* What the properties below speak of: the upload as the user wrote it and the     *)
(* outcome of loading it.                                                         *)

\* Step 1 has run on an upload
AfterLoad == pc = "gate" /\ uploaded_file # NoFile

Loaded == AfterLoad /\ load_error = NoError

TheEightColumns ==
    {"Name", "Status", "Start Date", "Time", "Type", "Day", "Classes", "Active Participants"}

HasColumn(c) == \E k \in 1..Len(uploaded_file.header) : uploaded_file.header[k] = c

HasAllColumns == \A c \in TheEightColumns : HasColumn(c)

\* the text of data row j of the upload under the header c
RawText(j, c) == uploaded_file.rows[j][HeaderPos(uploaded_file.header, c)]

RawRows == 1..Len(uploaded_file.rows)

\* the data rows whose Status is "upcoming" in any letter case, in input order
UpcomingRows ==
    LET IsUpcoming(j) == Lower(RawText(j, "Status")) = "upcoming"
    IN  SelectSeq([j \in RawRows |-> j], IsUpcoming)

\* the data row of the upload that record i of the table comes from
RawRowOf(i) == courses_df.index[i] + 1

Records == 1..Len(courses_df.rows)

----------------------------------------------------------------------------
(* C1: for an input with all required columns, load returns exactly the rows whose *)
(* Status equals "upcoming" ignoring letter case, in input order, and fails with  *)
(* EmptyResult if and only if no row has such a Status.                          *)

C1_LoadKeepsUpcomingRows ==
    (AfterLoad /\ HasAllColumns) =>
        /\ (load_error = EmptyResultError) <=> (UpcomingRows = <<>>)
        /\ UpcomingRows # <<>> =>
              /\ load_error = NoError
              /\ Len(courses_df.rows) = Len(UpcomingRows)
              /\ \A i \in 1..Len(UpcomingRows) : RawRowOf(i) = UpcomingRows[i]

\* the same, for the uploads whose Status column holds text in some row (read_csv then
\* keeps the column as text); C1 fails on the others only
C1_HoldsWhenStatusIsText ==
    (AfterLoad /\ HasAllColumns /\ \E j \in RawRows : ~IsIntLit(RawText(j, "Status")) /\ RawText(j, "Status") # "")
        => C1_LoadKeepsUpcomingRows

----------------------------------------------------------------------------
(* C2: load fails with MissingColumns whenever at least one of the eight required  *)
(* columns is absent from the input header, and never for that reason when all    *)
(* eight are present, whatever extra columns the input carries.                   *)

C2_MissingColumnsIffAbsent ==
    AfterLoad => ((load_error = MissingColumnsError) <=> ~HasAllColumns)

\* a header without 'Day' was refused, and one with an extra column is not refused for it
C2_Witness ==
    /\ AfterLoad
    /\ load_error = MissingColumnsError
    /\ ~HasColumn("Day")
    /\ \A c \in TheEightColumns \ {"Day"} : HasColumn(c)

----------------------------------------------------------------------------
(* C3: when load fails (MissingColumns or EmptyResult) no table, not even a       *)
(* partial one, reaches the workflow: in that run there is no course table, and   *)
(* none of the later steps (content order, generation of the blocks, of subject,  *)
(* preview and summary, final assembly) executes.                                 *)

C3_FailedLoadStopsRun ==
    /\ [](load_error # NoError => (courses_df = NoTable /\ available_content_types = <<>>))
    /\ [][load_error # NoError => ~(Step2 \/ Step3 \/ Step4 \/ Step5)]_vars

\* a run on an upload without upcoming rows has ended, in a session whose earlier run
\* went through Step 3
C3_Witness ==
    /\ pc = "idle"
    /\ load_error = EmptyResultError
    /\ courses_df = NoTable
    /\ html_generated

----------------------------------------------------------------------------
(* C4: classify yields adults = the rows whose lower-cased type equals "adult",   *)
(* juniors = those whose lower-cased type equals "junior", events = those whose   *)
(* lower-cased type contains "event", "session" or "drop" united with those whose *)
(* classCount is 1. The filters are independent: a row may be in two of them, or  *)
(* in none.                                                                       *)

TypeOf(record) == Lower(record["Type"].s)

InAdults(record) == TypeOf(record) = "adult"
InJuniors(record) == TypeOf(record) = "junior"
InEvents(record) ==
    \/ Contains(TypeOf(record), "event")
    \/ Contains(TypeOf(record), "session")
    \/ Contains(TypeOf(record), "drop")
    \/ record["Classes"].n = 1

\* the selection holds the records at the positions at, in that order
SelectionIs(at) ==
    /\ Len(selection.df.rows) = Len(at)
    /\ \A k \in 1..Len(at) :
          /\ selection.df.rows[k] = courses_df.rows[at[k]]
          /\ selection.df.index[k] = courses_df.index[at[k]]

C4_ClassifyIndependentFilters ==
    LET Adult(i) == InAdults(courses_df.rows[i])
        Junior(i) == InJuniors(courses_df.rows[i])
        Event(i) == InEvents(courses_df.rows[i])
    IN  /\ selection.content_type = "adults" => SelectionIs(SelectSeq([i \in Records |-> i], Adult))
        /\ selection.content_type = "juniors" => SelectionIs(SelectSeq([i \in Records |-> i], Junior))
        /\ selection.content_type = "events" => SelectionIs(SelectSeq([i \in Records |-> i], Event))

\* events was asked for on a table with a one-class adult course, which is in events and in
\* adults, and a course that is in no category
C4_Witness ==
    /\ selection.content_type = "events"
    /\ \E k \in 1..Len(selection.df.rows) :
          /\ InAdults(selection.df.rows[k])
          /\ selection.df.rows[k]["Classes"].n = 1
    /\ \E i \in Records :
          ~InAdults(courses_df.rows[i]) /\ ~InJuniors(courses_df.rows[i]) /\ ~InEvents(courses_df.rows[i])

----------------------------------------------------------------------------
(* C5: derive is total: every record that survives load carries all six derived   *)
(* fields (venue, skillLevel, limitedSpots, full, formattedStartDate,             *)
(* durationText) set to a defined value, and its full field is true if and only   *)
(* if activeParticipants >= 10.                                                   *)

C5_SixDerivedFieldsWithFull ==
    Loaded => \A i \in Records :
        /\ {"Venue", "Skill Level", "Limited Spots", "Full", "Formatted Start Date", "Duration Text"}
               \subseteq DOMAIN courses_df.rows[i]
        /\ courses_df.rows[i]["Full"] = CellBool(courses_df.rows[i]["Active Participants"].n >= 10)

(* C5 as amended: every record that survives load carries the five derived fields *)
(* venue, skillLevel, limitedSpots, formattedStartDate and durationText, beside   *)
(* the columns of the input and nothing else: no full field is derived. Venue and *)
(* skill level are one of their fixed names, limitedSpots is a boolean,           *)
(* durationText a text, and formattedStartDate is a text unless the Start Date    *)
(* cell was empty.                                                                *)

DerivedColumns == {"Venue", "Skill Level", "Limited Spots", "Formatted Start Date", "Duration Text"}

InputColumns == {Strip(uploaded_file.header[k]) : k \in 1..Len(uploaded_file.header)}

C5_FiveDerivedFields ==
    Loaded => \A i \in Records :
        /\ DOMAIN courses_df.rows[i] = InputColumns \cup DerivedColumns
        /\ courses_df.rows[i]["Venue"].t = "str"
        /\ courses_df.rows[i]["Venue"].s \in {"Belair Park", "Dulwich Park", "Unknown Venue"}
        /\ courses_df.rows[i]["Skill Level"].t = "str"
        /\ courses_df.rows[i]["Skill Level"].s \in
               {"Beginner", "Improver", "Intermediate", "Advanced", "Unknown"}
        /\ courses_df.rows[i]["Limited Spots"].t = "bool"
        /\ courses_df.rows[i]["Duration Text"].t = "str"
        /\ courses_df.rows[i]["Duration Text"].s # ""
        /\ (courses_df.rows[i]["Formatted Start Date"].t = "str"
               \/ RawText(RawRowOf(i), "Start Date") = "")

\* a table is loaded with a course of ten or more participants, the case of "full"
C5_Witness ==
    /\ Loaded
    /\ \E i \in Records : courses_df.rows[i]["Active Participants"].n >= 10

----------------------------------------------------------------------------
(* C6: for every record, limitedSpots is true if and only if                      *)
(* 7 <= activeParticipants < 10: true for 7 and 8, false for 10 or more.          *)

C6_LimitedSpotsFrom7Below10 ==
    Loaded => \A i \in Records :
        courses_df.rows[i]["Limited Spots"] =
            CellBool(/\ 7 <= courses_df.rows[i]["Active Participants"].n
                     /\ courses_df.rows[i]["Active Participants"].n < 10)

----------------------------------------------------------------------------
(* C7: for every record, durationText is "{classCount} week" when classCount is 1 *)
(* and "{classCount} weeks" for every other classCount, 0 included.               *)

C7_DurationTextPlural ==
    Loaded => \A i \in Records :
        courses_df.rows[i]["Duration Text"].s =
            IF courses_df.rows[i]["Classes"].n = 1
            THEN NumText(courses_df.rows[i]["Classes"]) \o " week"
            ELSE NumText(courses_df.rows[i]["Classes"]) \o " weeks"

----------------------------------------------------------------------------
(* C8: date formatting never raises: a raw startDate that parses as DD/MM/YYYY or *)
(* YYYY-MM-DD yields formattedStartDate "DD Month YYYY", any raw value that does  *)
(* not parse yields formattedStartDate equal to the raw value, unchanged, and the *)
(* record survives load.                                                          *)

\* raw is DD/MM/YYYY and names a day of the calendar
IsDMY(raw) ==
    /\ Len(raw) = 10 /\ CharAt(raw, 3) = "/" /\ CharAt(raw, 6) = "/"
    /\ DateOf(SubSeq(raw, 1, 2), SubSeq(raw, 4, 5), SubSeq(raw, 7, 10)).ok

\* raw is YYYY-MM-DD and names a day of the calendar
IsYMD(raw) ==
    /\ Len(raw) = 10 /\ CharAt(raw, 5) = "-" /\ CharAt(raw, 8) = "-"
    /\ DateOf(SubSeq(raw, 9, 10), SubSeq(raw, 6, 7), SubSeq(raw, 1, 4)).ok

DayMonthYear(dd, mm, yyyy) == dd \o " " \o MonthNames[DigitsVal(mm)] \o " " \o yyyy

\* the cell read_csv holds for a text of a column of texts
AsRead(raw) == IF raw = "" THEN NaN ELSE CellStr(raw)

DateFormattedAsClaimed(raw, formatted) ==
    IF IsDMY(raw)
    THEN formatted = CellStr(DayMonthYear(SubSeq(raw, 1, 2), SubSeq(raw, 4, 5), SubSeq(raw, 7, 10)))
    ELSE IF IsYMD(raw)
    THEN formatted = CellStr(DayMonthYear(SubSeq(raw, 9, 10), SubSeq(raw, 6, 7), SubSeq(raw, 1, 4)))
    ELSE (~StrptimeDMY(raw).ok /\ ~StrptimeYMD(raw).ok) => formatted = AsRead(raw)

C8_FormatDateNeverRaises ==
    (AfterLoad /\ HasAllColumns /\ UpcomingRows # <<>>) =>
        /\ load_error = NoError
        /\ Len(courses_df.rows) = Len(UpcomingRows)
        /\ \A i \in Records :
              DateFormattedAsClaimed(RawText(RawRowOf(i), "Start Date"),
                                     courses_df.rows[i]["Formatted Start Date"])

\* a table holds a record whose start date did not parse and was kept as it was, beside a
\* record with a formatted date
C8_Witness ==
    /\ Loaded
    /\ \E i \in Records :
          /\ RawText(RawRowOf(i), "Start Date") = "not-a-date"
          /\ courses_df.rows[i]["Formatted Start Date"] = CellStr("not-a-date")
    /\ \E i \in Records : courses_df.rows[i]["Formatted Start Date"] = CellStr("04 August 2025")

----------------------------------------------------------------------------
(* C9: after load, every record's classCount and activeParticipants is an integer *)
(* greater than or equal to 0; any non-numeric raw value becomes 0.               *)

CountColumns == {"Classes", "Active Participants"}

C9_CountsNeverNegative ==
    Loaded => \A i \in Records : \A c \in CountColumns :
        /\ IsNumber(courses_df.rows[i][c])
        /\ courses_df.rows[i][c].n >= 0
        /\ ~IsIntLit(RawText(RawRowOf(i), c)) => courses_df.rows[i][c].n = 0

(* C9 as amended: after load, every record's classCount and activeParticipants is *)
(* a number: a raw value that is not numeric (or is empty) becomes 0 and a        *)
(* numeric raw value is kept as it is, so a negative raw value stays negative.    *)

C9_CountsCoerced ==
    Loaded => \A i \in Records : \A c \in CountColumns :
        /\ courses_df.rows[i][c].t \in {"int", "float"}
        /\ courses_df.rows[i][c].n =
               IF IsIntLit(RawText(RawRowOf(i), c)) THEN IntLit(RawText(RawRowOf(i), c)) ELSE 0

\* a table holds a record whose Classes text was no number
C9_Witness ==
    /\ Loaded
    /\ \E i \in Records :
          /\ RawText(RawRowOf(i), "Classes") = "abc"
          /\ courses_df.rows[i]["Classes"].n = 0

----------------------------------------------------------------------------
(* C10: load trims whitespace from column headers and from the string-typed       *)
(* column values before validation: an input whose headers or Status values       *)
(* differ from the expected ones only by leading or trailing whitespace passes    *)
(* the required-column check and the upcoming filter as the trimmed input would.  *)

HasColumnTrimmed(c) == \E k \in 1..Len(uploaded_file.header) : Strip(uploaded_file.header[k]) = c

C10_TrimmedBeforeValidation ==
    AfterLoad =>
        /\ (\A c \in TheEightColumns : HasColumnTrimmed(c)) => load_error # MissingColumnsError
        /\ Loaded => \A j \in RawRows :
              Lower(Strip(RawText(j, "Status"))) = "upcoming"
                  => \E i \in Records : RawRowOf(i) = j

----------------------------------------------------------------------------
(* What the properties of the composer speak of: the call that was made last and   *)
(* what it returned.                                                               *)

CourseBlockRendered == rendered.op = "generate_course_block"
EventsBlockRendered == rendered.op = "generate_events_block"
NewsletterRendered == rendered.op = "generate_newsletter_html"
SingleEventRendered == rendered.op = "generate_single_event_html"

AdultsBlockRendered ==
    CourseBlockRendered /\ rendered.block_type = "adults" /\ rendered.courses.rows # <<>>

JuniorsBlockRendered ==
    CourseBlockRendered /\ rendered.block_type = "juniors" /\ rendered.courses.rows # <<>>

\* a text of white space only, or no text at all
IsBlank(text) == \A i \in 1..Len(text) : CharAt(text, i) \in {" ", "\t", "\n", "\r"}

\* the blocks that are not blank, in the order given
Kept(blocks) ==
    LET NotBlank(block) == ~IsBlank(block)
    IN  SelectSeq(blocks, NotBlank)

----------------------------------------------------------------------------
(* C11: composeBlock on an empty row set returns the empty string for every       *)
(* category (adults, juniors, events), never a heading-only fragment, and the     *)
(* assembler skips empty or blank fragments: the document of a list of blocks is  *)
(* the document of its non-blank blocks.                                          *)

C11_EmptyFragmentsAddNothing ==
    /\ ((CourseBlockRendered \/ EventsBlockRendered) /\ rendered.courses.rows = <<>>)
           => rendered.html = ""
    /\ NewsletterRendered =>
           /\ rendered.html = generate_newsletter_html(Kept(rendered.blocks), rendered.subject,
                                                       llm_helper, rendered.custom_summary)
           /\ \A k \in 1..Len(rendered.html_parts) : ~IsBlank(rendered.html_parts[k])

\* the events block was asked of a composer with a helper for a category without rows
C11_Witness ==
    /\ EventsBlockRendered
    /\ llm_helper.attached
    /\ rendered.courses.rows = <<>>
    /\ rendered.html = ""

----------------------------------------------------------------------------
(* The parts of a rendered block, read as a reader of the fragment reads them.     *)

IsGroupHeading(part) == StartsWith(part, "<h3>") /\ EndsWith(part, "</h3>")
IsItem(part) == StartsWith(part, "<li>") /\ EndsWith(part, "</li>")

\* the text between <h3> and </h3>
HeadingName(part) == SubSeq(part, 5, Len(part) - 5)

\* the names of the group headings of a fragment, top to bottom
HeadingNames(parts) ==
    LET heads == SelectSeq(parts, IsGroupHeading)
    IN  [k \in 1..Len(heads) |-> HeadingName(heads[k])]

\* the list items written under the heading of one group, up to the next heading
ItemsUnder(parts, name) ==
    LET at == CHOOSE k \in 1..Len(parts) : parts[k] = "<h3>" \o name \o "</h3>"
        later == {k \in (at + 1)..Len(parts) : IsGroupHeading(parts[k])}
        last == IF later = {} THEN Len(parts) ELSE Least(later) - 1
    IN  SelectSeq(SubSeq(parts, at + 1, last), IsItem)

LevelOf(row) == row["Skill Level"].s

\* the rows of one skill level, in the order of the input
RowsOfLevel(rows, name) ==
    LET InGroup(row) == LevelOf(row) = name
    IN  SelectSeq(rows, InGroup)

\* Beginner, Improver, Intermediate, Advanced, then every other level
LevelRank(name) ==
    CASE name = "Beginner" -> 1 []
         name = "Improver" -> 2 []
         name = "Intermediate" -> 3 []
         name = "Advanced" -> 4 []
         OTHER -> 5

----------------------------------------------------------------------------
(* C12: in the adults block, whatever the order of the input rows, the skill-level *)
(* groups appear in the order Beginner, Improver, Intermediate, Advanced, then any *)
(* unrecognized level; the Unknown group is omitted entirely; inside each group    *)
(* the items appear in input row order.                                           *)

C12_GroupsInLevelOrder ==
    AdultsBlockRendered =>
        LET parts == rendered.html_parts
            rows == rendered.courses.rows
            names == HeadingNames(parts)
        IN  /\ {names[k] : k \in 1..Len(names)}
                   = {LevelOf(rows[i]) : i \in 1..Len(rows)} \ {"Unknown"}
            /\ \A j, k \in 1..Len(names) : j < k =>
                   /\ names[j] # names[k]
                   /\ LevelRank(names[j]) <= LevelRank(names[k])
            /\ \A k \in 1..Len(names) :
                   LET group == RowsOfLevel(rows, names[k])
                   IN  ItemsUnder(parts, names[k])
                           = [i \in 1..Len(group) |-> _format_course_item(group[i], TRUE)]

\* an Advanced course came before a Beginner course in the input, and the block has
\* Beginner first
C12_Witness ==
    /\ AdultsBlockRendered
    /\ Len(rendered.courses.rows) = 2
    /\ LevelOf(rendered.courses.rows[1]) = "Advanced"
    /\ LevelOf(rendered.courses.rows[2]) = "Beginner"
    /\ HeadingNames(rendered.html_parts) = <<"Beginner", "Advanced">>

----------------------------------------------------------------------------
(* C13: every rendered adult or event item carries the suffix "(Limited spots!)"   *)
(* if and only if 7 <= activeParticipants < 10 and the suffix "(Full!)" if and     *)
(* only if activeParticipants >= 10, so no item carries both and an item with      *)
(* fewer than 7 participants carries neither.                                      *)

Participants(row) == row["Active Participants"].n

MarkedAsClaimed(item, row) ==
    /\ Contains(item, "(Limited spots!)") <=> (7 <= Participants(row) /\ Participants(row) < 10)
    /\ Contains(item, "(Full!)") <=> Participants(row) >= 10
    /\ ~(Contains(item, "(Limited spots!)") /\ Contains(item, "(Full!)"))
    /\ Participants(row) < 7 => ~Contains(item, "(Limited spots!)") /\ ~Contains(item, "(Full!)")

\* the items of the events block, one per row
EventItems(parts) == SelectSeq(parts, IsItem)

C13_SpotsSuffixes ==
    /\ AdultsBlockRendered =>
           \A name \in {"Beginner", "Improver", "Intermediate", "Advanced", "Cardio"} :
               LET group == RowsOfLevel(rendered.courses.rows, name)
               IN  group # <<>> =>
                       /\ Len(ItemsUnder(rendered.html_parts, name)) = Len(group)
                       /\ \A i \in 1..Len(group) :
                              MarkedAsClaimed(ItemsUnder(rendered.html_parts, name)[i], group[i])
    /\ (EventsBlockRendered /\ rendered.courses.rows # <<>>) =>
           /\ Len(EventItems(rendered.html_parts)) = Len(rendered.courses.rows)
           /\ \A i \in 1..Len(rendered.courses.rows) :
                  MarkedAsClaimed(EventItems(rendered.html_parts)[i], rendered.courses.rows[i])

\* an adults block with a course of 9 and a course of 12 participants: one item is marked
\* limited, the other full
C13_Witness ==
    /\ AdultsBlockRendered
    /\ Len(rendered.courses.rows) = 2
    /\ Participants(rendered.courses.rows[1]) = 9
    /\ Participants(rendered.courses.rows[2]) = 12
    /\ \E k \in 1..Len(rendered.html_parts) :
           /\ Contains(rendered.html_parts[k], "(Limited spots!)")
           /\ ~Contains(rendered.html_parts[k], "(Full!)")
    /\ \E k \in 1..Len(rendered.html_parts) :
           /\ Contains(rendered.html_parts[k], "(Full!)")
           /\ ~Contains(rendered.html_parts[k], "(Limited spots!)")

----------------------------------------------------------------------------
(* The booking link of a skill-level group, and the start dates of its rows.       *)

IsBookingLink(part) == Contains(part, "class=\"cta-button\"")

\* the booking links written under the heading of one group, up to the next heading
LinksUnder(parts, name) ==
    LET at == CHOOSE k \in 1..Len(parts) : parts[k] = "<h3>" \o name \o "</h3>"
        later == {k \in (at + 1)..Len(parts) : IsGroupHeading(parts[k])}
        last == IF later = {} THEN Len(parts) ELSE Least(later) - 1
    IN  SelectSeq(SubSeq(parts, at + 1, last), IsBookingLink)

\* Beginner=1, Improver=4, Intermediate=2, Advanced=3
LevelIdentifier(name) ==
    CASE name = "Beginner" -> "1" []
         name = "Improver" -> "4" []
         name = "Intermediate" -> "2" []
         name = "Advanced" -> "3"

RecognizedLevels == {"Beginner", "Improver", "Intermediate", "Advanced"}

\* the start date of a row as a calendar date, read day/month/year or year-month-day
StartDateOf(row) ==
    IF row["Start Date"].t # "str" THEN NoDate
    ELSE IF Contains(row["Start Date"].s, "/") THEN StrptimeDMY(row["Start Date"].s)
    ELSE StrptimeYMD(row["Start Date"].s)

DayNumber(date) == date.y * 10000 + date.m * 100 + date.d

\* the ISO instant at midnight UTC of a calendar date
IsoInstant(date) ==
    ToString(date.y) \o "-" \o Pad2(date.m) \o "-" \o Pad2(date.d) \o "T00:00:00.000Z"

\* the instants of the rows of a group whose start date parses
GroupInstants(group) ==
    {IsoInstant(StartDateOf(group[i])) : i \in {k \in 1..Len(group) : StartDateOf(group[k]).ok}}

\* the chronologically earliest start date among the rows of a group, all of which parse
EarliestInstant(group) ==
    IsoInstant(StartDateOf(group[CHOOSE i \in 1..Len(group) :
        \A k \in 1..Len(group) : DayNumber(StartDateOf(group[i])) <= DayNumber(StartDateOf(group[k]))]))

DateOfLink(instant) == "&date-range[]=%22" \o instant \o "%22"

----------------------------------------------------------------------------
(* C14: for each adult skill-level group, the booking link carries that level's    *)
(* identifier (Beginner=1, Improver=4, Intermediate=2, Advanced=3) and, as its     *)
(* date, the chronologically earliest startDate among the rows of that group only  *)
(* (not of other groups), formatted as an ISO instant at midnight UTC.             *)

C14_LinkCarriesGroupEarliestDate ==
    AdultsBlockRendered =>
        \A name \in RecognizedLevels :
            LET group == RowsOfLevel(rendered.courses.rows, name)
                links == LinksUnder(rendered.html_parts, name)
            IN  group # <<>> =>
                    /\ Len(links) = 1
                    /\ Contains(links[1], "?skill-level%5B%5D=" \o LevelIdentifier(name) \o "&")
                    /\ (\A i \in 1..Len(group) : StartDateOf(group[i]).ok)
                           => Contains(links[1], DateOfLink(EarliestInstant(group)))

\* the part of C14 the code keeps: one link per group, with the identifier of the level
C14_LinkCarriesLevelIdentifier ==
    AdultsBlockRendered =>
        \A name \in RecognizedLevels :
            LET group == RowsOfLevel(rendered.courses.rows, name)
                links == LinksUnder(rendered.html_parts, name)
            IN  group # <<>> =>
                    /\ Len(links) = 1
                    /\ Contains(links[1], "?skill-level%5B%5D=" \o LevelIdentifier(name) \o "&")

----------------------------------------------------------------------------
(* C15: the booking link of a skill-level group uses the fixed fallback instant    *)
(* exactly when date parsing fails for every row of that group; if at least one    *)
(* row of the group has a parsable startDate the link carries a date taken from    *)
(* the rows; in neither case does the render of the block fail.                    *)

C15_FallbackIffNoRowParses ==
    AdultsBlockRendered =>
        /\ rendered.html # ""
        /\ \A name \in RecognizedLevels :
               LET group == RowsOfLevel(rendered.courses.rows, name)
                   links == LinksUnder(rendered.html_parts, name)
               IN  group # <<>> =>
                       /\ Len(links) = 1
                       /\ Contains(links[1], DateOfLink(FallbackDate)) <=> GroupInstants(group) = {}
                       /\ GroupInstants(group) # {} =>
                              \E instant \in GroupInstants(group) : Contains(links[1], DateOfLink(instant))

\* the part of C15 the code keeps: the block is rendered, with one link per group,
\* whatever the start dates are
C15_RenderNeverFails ==
    AdultsBlockRendered =>
        /\ rendered.html # ""
        /\ \A name \in RecognizedLevels :
               RowsOfLevel(rendered.courses.rows, name) # <<>>
                   => Len(LinksUnder(rendered.html_parts, name)) = 1

----------------------------------------------------------------------------
(* C16: whenever an enrichment port is attached to the composer and its            *)
(* level-blurb call yields nothing (empty text or a failure), the adults block     *)
(* still shows, for that skill-level group, the static per-level fallback sentence *)
(* before the item list.                                                           *)

\* the call to the API gives no text: no credential, no content, an exception, or a text
\* that is empty once cleaned
YieldsNothing(helper) == _make_llm_call(helper) = ""

\* under the heading of the group comes the static sentence of the level, then the list
StaticSentenceShown(parts, name) ==
    LET at == CHOOSE k \in 1..Len(parts) : parts[k] = "<h3>" \o name \o "</h3>"
    IN  /\ at + 2 <= Len(parts)
        /\ parts[at + 1] = "<p>" \o FALLBACK_LEVEL_DESCRIPTIONS(name) \o "</p>"
        /\ parts[at + 2] = "<ul>"

C16_StaticSentenceWhenPortYieldsNothing ==
    (AdultsBlockRendered /\ llm_helper.attached /\ YieldsNothing(llm_helper)) =>
        \A k \in 1..Len(HeadingNames(rendered.html_parts)) :
            StaticSentenceShown(rendered.html_parts, HeadingNames(rendered.html_parts)[k])

\* the part of C16 the code keeps: a helper without a credential gives the static sentence
C16_StaticSentenceWithoutCredential ==
    (AdultsBlockRendered /\ llm_helper.attached /\ ~llm_helper.api_key) =>
        \A k \in 1..Len(HeadingNames(rendered.html_parts)) :
            StaticSentenceShown(rendered.html_parts, HeadingNames(rendered.html_parts)[k])

----------------------------------------------------------------------------
(* C17: the juniors block consists of the heading, the fixed four-entry legend     *)
(* (Blue, Red, Orange, Green, in that order), then one list entry per input row    *)
(* showing the raw course name in input order (not grouped, not reformatted), and  *)
(* exactly one junior booking link at the end; no junior entry carries a           *)
(* limited/full annotation or a skill-level group heading.                         *)

NameOf(row) == row["Name"].s

\* heading and legend: the first eight parts of the block
JuniorHeadingAndLegend(parts) ==
    /\ Len(parts) >= 9
    /\ parts[1] = "<h2>Term Time Junior Courses</h2>"
    /\ parts[2] = "<p><strong>Age Groups:</strong></p>"
    /\ parts[3] = "<ul>"
    /\ IsItem(parts[4]) /\ StartsWith(parts[4], "<li>Blue (")
    /\ IsItem(parts[5]) /\ StartsWith(parts[5], "<li>Red (")
    /\ IsItem(parts[6]) /\ StartsWith(parts[6], "<li>Orange (")
    /\ IsItem(parts[7]) /\ StartsWith(parts[7], "<li>Green (")
    /\ parts[8] = "</ul>"

\* the list of names that follows the legend, then nothing but the link
JuniorNamesListed(parts, names) ==
    /\ Len(parts) = 12 + Len(names)
    /\ parts[9] = "<p><strong>Available Courses:</strong></p>"
    /\ parts[10] = "<ul>"
    /\ \A k \in 1..Len(names) : parts[10 + k] = "<li>" \o names[k] \o "</li>"
    /\ parts[11 + Len(names)] = "</ul>"

\* one junior booking link, at the end; no annotation and no group heading anywhere
JuniorLinkAndNoAdultMarkup(parts) ==
    /\ IsBookingLink(parts[Len(parts)])
    /\ Contains(parts[Len(parts)], "href=\"" \o JUNIOR_BOOKING_URL \o "\"")
    /\ \A k \in 1..Len(parts) :
           /\ IsBookingLink(parts[k]) => k = Len(parts)
           /\ ~Contains(parts[k], "(Limited spots!)")
           /\ ~Contains(parts[k], "(Full!)")
           /\ ~IsGroupHeading(parts[k])

\* C17 as stated: one entry per input row
C17_OneEntryPerRow ==
    JuniorsBlockRendered =>
        /\ JuniorHeadingAndLegend(rendered.html_parts)
        /\ JuniorNamesListed(rendered.html_parts,
                             [i \in 1..Len(rendered.courses.rows) |-> NameOf(rendered.courses.rows[i])])
        /\ JuniorLinkAndNoAdultMarkup(rendered.html_parts)

\* the names of the rows that have one, in input order
NamesPresent(rows) ==
    LET HasName(name) == name # ""
    IN  SelectSeq([i \in 1..Len(rows) |-> NameOf(rows[i])], HasName)

\* C17 amended: one entry per input row that has a name, in input order; a row whose
\* name is empty has no entry, and when no row has a name the list of names is left out
C17_OneEntryPerNamedRow ==
    JuniorsBlockRendered =>
        /\ JuniorHeadingAndLegend(rendered.html_parts)
        /\ IF NamesPresent(rendered.courses.rows) = <<>>
           THEN Len(rendered.html_parts) = 9
           ELSE JuniorNamesListed(rendered.html_parts, NamesPresent(rendered.courses.rows))
        /\ JuniorLinkAndNoAdultMarkup(rendered.html_parts)

\* a juniors block of a named course and a course whose name is empty: one entry
C17_Witness ==
    /\ JuniorsBlockRendered
    /\ Len(rendered.courses.rows) = 2
    /\ NameOf(rendered.courses.rows[1]) = "Belair Park Junior Red Ball Course"
    /\ NameOf(rendered.courses.rows[2]) = ""
    /\ Participants(rendered.courses.rows[2]) = 12
    /\ Len(rendered.html_parts) = 13
    /\ rendered.html_parts[11] = "<li>Belair Park Junior Red Ball Course</li>"

----------------------------------------------------------------------------
(* C18: the fragment produced for the events category, including the one the       *)
(* workflow produces for the "events" content-order entry, has no heading of its   *)
(* own and renders every events row as one flat list item in input order: no       *)
(* skill-level grouping is applied and no row is dropped because its skill level   *)
(* is Unknown.                                                                     *)

IsHeading(line) == StartsWith(line, "<h1>") \/ StartsWith(line, "<h2>") \/ StartsWith(line, "<h3>")

\* the lines of a fragment show no heading and one item per row, in the order of the rows
FlatListOf(lines, rows) ==
    /\ \A k \in 1..Len(lines) : ~IsHeading(lines[k])
    /\ SelectSeq(lines, IsItem) = [i \in 1..Len(rows) |-> _format_course_item(rows[i], TRUE)]

\* the fragments Step 3 made for the "events" entry of the content order
C18_EventsFragmentFlat ==
    generation # NoGeneration =>
        \A k \in 1..Len(generation.content_order) :
            generation.content_order[k] = "events" =>
                FlatListOf(SplitLines(generation.fragments[k]),
                           get_courses_by_type(generation.courses, "events").rows)

\* the part of C18 the code keeps: generate_events_block itself writes a flat list without
\* a heading, rows of Unknown skill level included
C18_EventsBlockFlat ==
    (EventsBlockRendered /\ rendered.courses.rows # <<>>) =>
        FlatListOf(rendered.html_parts, rendered.courses.rows)

----------------------------------------------------------------------------
(* C19: the fragment for a single user-authored event always contains a            *)
(* descriptive paragraph: the enrichment port's text when the port yields          *)
(* non-empty text, and otherwise (no port, no credential, empty response or        *)
(* failure) the user's raw description verbatim.                                   *)

\* the text the port gives for an event, "" when it gives none
PortText(helper) == IF helper.attached THEN _make_llm_call(helper) ELSE ""

Paragraph(text) == "<p>" \o text \o "</p>"

C19_DescriptionParagraphAlways ==
    SingleEventRendered =>
        \E k \in 1..Len(rendered.html_parts) :
            rendered.html_parts[k]
                = Paragraph(IF PortText(llm_helper) # "" THEN PortText(llm_helper)
                            ELSE rendered.event.description)

\* the part of C19 the code keeps: when the port yields a text, the paragraph carries it
C19_PortTextShown ==
    (SingleEventRendered /\ PortText(llm_helper) # "") =>
        \E k \in 1..Len(rendered.html_parts) :
            rendered.html_parts[k] = Paragraph(PortText(llm_helper))

----------------------------------------------------------------------------
(* C20: assemble inserts the title if and only if a title is given and a summary   *)
(* is available: with a summary the wrapper contains the title (if any), then the  *)
(* summary paragraph, then all non-blank fragments in the given order; with no     *)
(* summary the wrapper contains only the non-blank fragments in the given order    *)
(* and no title, even when a title was passed.                                     *)

\* the summary the assembler has: the one passed, else the one the helper passed makes
SummaryAvailable(custom_summary, made) ==
    IF custom_summary # "" THEN custom_summary
    ELSE IF llm_helper.attached /\ made.ok THEN made.text
    ELSE ""

\* what stands between the opening and the closing tag of the wrapper
Wrapped(parts) == SubSeq(parts, 2, Len(parts) - 1)

IsWrapper(parts) ==
    /\ Len(parts) >= 2
    /\ StartsWith(parts[1], "<div style=")
    /\ parts[Len(parts)] = "</div>"

TitleShown(parts, subject) == \E k \in 1..Len(parts) : parts[k] = "<h1>" \o subject \o "</h1>"

AssembledAsClaimed(parts, blocks, subject, summary) ==
    /\ IsWrapper(parts)
    /\ TitleShown(parts, subject) <=> (subject # "" /\ summary # "")
    /\ IF summary = "" THEN Wrapped(parts) = Kept(blocks)
       ELSE LET title == IF subject # "" THEN <<"<h1>" \o subject \o "</h1>">> ELSE <<>>
            IN  /\ Len(Wrapped(parts)) = Len(title) + 1 + Len(Kept(blocks))
                /\ SubSeq(Wrapped(parts), 1, Len(title)) = title
                /\ Contains(Wrapped(parts)[Len(title) + 1], Paragraph(summary))
                /\ SubSeq(Wrapped(parts), Len(title) + 2, Len(Wrapped(parts))) = Kept(blocks)

C20_TitleOnlyWithSummary ==
    NewsletterRendered =>
        AssembledAsClaimed(rendered.html_parts, rendered.blocks, rendered.subject,
                           SummaryAvailable(rendered.custom_summary,
                                            generate_newsletter_summary_from_html(
                                                llm_helper, Join(PlainParts(rendered.blocks), "\n"))))

\* a title was passed, no summary, and one of the two blocks is blank: the wrapper holds
\* the other block alone
C20_Witness ==
    /\ NewsletterRendered
    /\ rendered.subject # ""
    /\ rendered.custom_summary = ""
    /\ Len(rendered.blocks) = 2
    /\ IsBlank(rendered.blocks[1])
    /\ ~IsBlank(rendered.blocks[2])
    /\ Wrapped(rendered.html_parts) = <<rendered.blocks[2]>>

----------------------------------------------------------------------------
(* C28: a row with Type "Event" and Classes "1" appears in both classifier         *)
(* outputs, events and drop_ins: requesting the drop_ins category returns that     *)
(* row, and the availability map reports drop_ins as available with a count        *)
(* greater than 0.                                                                 *)

\* the loaded records whose Type is "Event" and whose class count is 1
OneOffEvents == {i \in Records : courses_df.rows[i]["Type"].s = "Event" /\ courses_df.rows[i]["Classes"].n = 1}

\* the selection holds the record at position i of the table
Selected(i) == \E k \in 1..Len(selection.df.rows) : selection.df.rows[k] = courses_df.rows[i]

C28_EventRowInEventsAndDropIns ==
    (Loaded /\ OneOffEvents # {}) =>
        /\ selection.content_type \in {"events", "drop_ins"} => \A i \in OneOffEvents : Selected(i)
        /\ get_content_types(courses_df)["drop_ins"].available
        /\ get_content_types(courses_df)["drop_ins"].count > 0
        /\ "drop_ins" \in Range(available_content_types)

\* the part of C28 the code keeps: the row is in events, and events is reported available
C28_EventRowInEvents ==
    (Loaded /\ OneOffEvents # {}) =>
        /\ selection.content_type = "events" => \A i \in OneOffEvents : Selected(i)
        /\ get_content_types(courses_df)["events"].available
        /\ get_content_types(courses_df)["events"].count > 0
        /\ "events" \in Range(available_content_types)

----------------------------------------------------------------------------
(* C21: the summary used by assemble is the explicit summary whenever one is given *)
(* (the enrichment port is then not consulted); when no explicit summary is given  *)
(* but an enrichment port is supplied and yields non-empty summary text, that text *)
(* is inserted as the summary paragraph together with the title (if any) before    *)
(* the fragments.                                                                  *)

\* the summary text the port gives for a document, "" when it gives none
PortSummary(helper, made) == IF helper.attached /\ made.ok THEN made.text ELSE ""

\* the explicit summary, else the one of the port
SummaryClaimed(custom_summary, port_summary) ==
    IF custom_summary # "" THEN custom_summary ELSE port_summary

C21_ExplicitElsePortSummary ==
    NewsletterRendered =>
        LET summary == SummaryClaimed(rendered.custom_summary,
                                      PortSummary(llm_helper,
                                                  generate_newsletter_summary(
                                                      llm_helper, Join(PlainParts(rendered.blocks), "\n"))))
        IN  summary # "" =>
                AssembledAsClaimed(rendered.html_parts, rendered.blocks, rendered.subject, summary)

\* the part of C21 the code keeps: an explicit summary is the one inserted, whatever the
\* helper is
C21_ExplicitSummaryWins ==
    (NewsletterRendered /\ rendered.custom_summary # "") =>
        AssembledAsClaimed(rendered.html_parts, rendered.blocks, rendered.subject,
                           rendered.custom_summary)

----------------------------------------------------------------------------
(* C22: no failure or empty response of an enrichment call propagates out of, or   *)
(* aborts, a block render or the assembly: for every outcome of the port (text,    *)
(* empty, exception, no credential) the adults block, the events block, the        *)
(* single-event fragment and the assembled document are still returned.            *)

\* the same statement without its except clause: what is raised in the try block leaves it
ExceptionPassed(result) == result

\* try: ... except Exception as e: print(...): an exception raised in the try block ends
\* at the except clause and the statements after the try statement run
ExceptException(result) == TextOk(IF result.ok THEN result.text ELSE "")

\* self.client.chat.completions.create(...), the one statement of the helper that leaves
\* the process
Completion(self) == IF self.reply.kind = "raise" THEN TextRaise ELSE TextOk(self.reply.text)

\* _make_llm_call as a call: its try statement holds the completion
LlmCall(self) ==
    IF ~self.api_key THEN TextOk("")
    ELSE IF ExceptException(Completion(self)).ok THEN TextOk(_make_llm_call(self))
    ELSE TextRaise

LevelDescriptionCall(self, level) ==
    IF ~self.api_key THEN TextOk(generate_level_description(self, level)) ELSE LlmCall(self)

BlockDescriptionCall(self, content_type) ==
    IF ~self.api_key THEN TextOk(generate_block_description(self, content_type)) ELSE LlmCall(self)

EventDescriptionCall(self, event_info) ==
    IF ~self.api_key THEN generate_event_description(self, event_info) ELSE LlmCall(self)

\* the calls a render makes on its helper, each as it is after the try statement around it
HelperCalls(render, self) ==
    IF ~self.attached THEN {}
    ELSE IF render.op = "generate_course_block"
    THEN IF render.courses.rows = <<>> \/ render.block_type = "juniors" THEN {}
         ELSE {ExceptException(LevelDescriptionCall(self, level)) :
                   level \in Range(sorted_groups(render.courses))}
    ELSE IF render.op = "generate_events_block"
    THEN IF render.courses.rows = <<>> THEN {}
         ELSE {ExceptException(BlockDescriptionCall(self, "events"))}
    ELSE IF render.op = "generate_single_event_html"
    THEN {ExceptException(EventDescriptionCall(self, render.event))}
    ELSE IF render.op = "generate_newsletter_html"
    THEN IF render.custom_summary # "" THEN {}
         ELSE {ExceptException(generate_newsletter_summary_from_html(self, ""))}
    ELSE {}

\* the render ran to its return statement
Returned(render, self) == \A call \in HelperCalls(render, self) : call.ok

C22_RenderReturnsForEveryPortOutcome ==
    rendered.op # "" =>
        /\ Returned(rendered, llm_helper)
        /\ rendered.html = Join(rendered.html_parts, "\n")
        /\ AdultsBlockRendered =>
               /\ rendered.html_parts[1] = "<h2>Adult Courses</h2>"
               /\ \A name \in Range(sorted_groups(rendered.courses)) :
                      Len(ItemsUnder(rendered.html_parts, name))
                          = Len(RowsOfLevel(rendered.courses.rows, name))
        /\ (EventsBlockRendered /\ rendered.courses.rows # <<>>) =>
               Len(EventItems(rendered.html_parts)) = Len(rendered.courses.rows)
        /\ SingleEventRendered =>
               \E k \in 1..Len(rendered.html_parts) :
                   rendered.html_parts[k] = "<h2>" \o rendered.event["title"] \o "</h2>"
        /\ NewsletterRendered =>
               /\ IsWrapper(rendered.html_parts)
               /\ \A k \in 1..Len(Kept(rendered.blocks)) :
                      \E j \in 1..Len(rendered.html_parts) :
                          rendered.html_parts[j] = Kept(rendered.blocks)[k]

\* an adults block with a group, rendered with a helper whose completion raised
C22_Witness ==
    /\ AdultsBlockRendered
    /\ sorted_groups(rendered.courses) # <<>>
    /\ llm_helper.attached /\ llm_helper.api_key
    /\ ~Completion(llm_helper).ok
    /\ rendered.html # ""

\* the other outcomes of the port that raise: a helper without credential asked for an
\* event description, and the summary asked of a helper for the assembly
C22_WitnessEvent ==
    /\ SingleEventRendered
    /\ llm_helper.attached /\ ~llm_helper.api_key
    /\ ~EventDescriptionCall(llm_helper, rendered.event).ok
    /\ rendered.html # ""

----------------------------------------------------------------------------
(* C27: an event input slot yields an Event if and only if its description is      *)
(* non-empty; the event's id is determined by its slot position alone (slot n      *)
(* gives event_n), so filling or clearing other slots never changes it and the ids *)
(* of the at most three events are pairwise distinct; a blank or whitespace-only   *)
(* title is replaced by "Event n".                                                 *)

\* the positions in events of the event with the id of slot n
EventOfSlot(n) == {k \in DOMAIN events : events[k].id = "event_" \o ToString(n)}

C27_SlotsYieldEvents ==
    /\ Len(events) <= 3
    /\ \A j, k \in DOMAIN events : j # k => events[j].id # events[k].id
    /\ \A k \in DOMAIN events : \E n \in DOMAIN event_inputs : k \in EventOfSlot(n)
    /\ \A n \in DOMAIN event_inputs :
           /\ EventOfSlot(n) # {} <=> event_inputs[n].description # ""
           /\ \A k \in EventOfSlot(n) :
                  /\ events[k].description = event_inputs[n].description
                  /\ events[k].url = event_inputs[n].url
                  /\ events[k].image = event_inputs[n].image
                  /\ IF IsBlank(event_inputs[n].title)
                     THEN events[k].title = "Event " \o ToString(n)
                     ELSE events[k].title = event_inputs[n].title

\* slot 1 holds a title and no description, slot 2 a description under a title of blanks,
\* slot 3 is filled in: two events, of slots 2 and 3
C27_Witness ==
    /\ event_inputs[1].title # "" /\ event_inputs[1].description = ""
    /\ event_inputs[2].title = "  " /\ event_inputs[2].description # ""
    /\ event_inputs[3].title = "Summer Tournament" /\ event_inputs[3].description # ""
    /\ EventIds(events) = <<"event_2", "event_3">>
    /\ events[1].title = "Event 2"

----------------------------------------------------------------------------
(* C26: reconciling the content order against the current events drops every       *)
(* entry of an event that no longer exists, appends every new event id at the end, *)
(* and leaves the relative order of the course-category entries exactly as it was  *)
(* before the reconciliation.                                                      *)

\* Step 2 of this run found an order in the session and reconciled it
Reconciled == pc = "buttons" /\ order_log.before # NoOrder

CourseEntries(order) ==
    LET NotEvent(item) == ~IsEventKey(item)
    IN  SelectSeq(order, NotEvent)

\* the order without the entries of the events that are gone, then the ids that are new
DroppedAndAppended(order, event_ids) ==
    LET StillThere(item) == ~IsEventKey(item) \/ item \in Range(event_ids)
        IsNew(id) == id \notin Range(order)
    IN  SelectSeq(order, StillThere) \o SelectSeq(event_ids, IsNew)

C26_StaleDroppedNewAppended ==
    Reconciled => content_order = DroppedAndAppended(order_log.before, EventIds(events))

\* the part of C26 the code keeps: the course entries are as they were, no entry of an event
\* that is gone is left, and every current event has its entry, once, after the courses
C26_CourseOrderKept ==
    Reconciled =>
        /\ CourseEntries(content_order) = CourseEntries(order_log.before)
        /\ content_order = CourseEntries(content_order) \o EventIds(events)

----------------------------------------------------------------------------
(* C24: after every run of the workflow with a loaded table, across any sequence   *)
(* of CSV uploads, event edits and reposition operations, the content order        *)
(* contains each currently available category key and each current event id        *)
(* exactly once, and contains no other entry (no unavailable category, no removed  *)
(* event, no duplicate).                                                           *)

Occurrences(order, item) == Cardinality({k \in DOMAIN order : order[k] = item})

C24_OrderIsAvailableAndEvents ==
    pc = "buttons" =>
        /\ \A item \in Range(available_content_types) \cup Range(EventIds(events)) :
               Occurrences(content_order, item) = 1
        /\ \A k \in DOMAIN content_order :
               content_order[k] \in Range(available_content_types) \cup Range(EventIds(events))

\* the part of C24 the code keeps: the event entries are those of the current events, and
\* no entry is there twice
C24_EventEntriesCurrent ==
    pc = "buttons" =>
        /\ \A id \in Range(EventIds(events)) : Occurrences(content_order, id) = 1
        /\ \A k \in DOMAIN content_order :
               /\ IsEventKey(content_order[k]) => content_order[k] \in Range(EventIds(events))
               /\ Occurrences(content_order, content_order[k]) = 1

----------------------------------------------------------------------------
(* C25: a reposition operation on the entry at position i of the content order,    *)
(* for any entry (course category or event), swaps it with its neighbour (Move Up  *)
(* with position i-1, Move Down with position i+1) and changes nothing else, and   *)
(* the resulting sequence is the section order used by the next newsletter         *)
(* generation; Move Up on the first entry and Move Down on the last entry are not  *)
(* possible.                                                                       *)

\* the run after a reposition has reached the buttons, where content_order is the order a
\* generation reads
AfterReposition == pc = "buttons" /\ order_log.moved # NoOrder

C25_RepositionIsNextOrder == AfterReposition => content_order = order_log.moved

\* the part of C25 the code keeps: the order a reposition stores is the old one with two
\* neighbours swapped, and it is the order of the next run as far as the course entries go
C25_SwapStoredCoursesKept ==
    /\ order_log.moved # NoOrder =>
           /\ pc = "step1" => content_order = order_log.moved
           /\ CourseEntries(content_order) = CourseEntries(order_log.moved)
    /\ [][(pc = "buttons" /\ content_order' # content_order) =>
              \E i \in 1..(Len(content_order) - 1) :
                  content_order' = Swap(content_order, i, i + 1)]_vars

----------------------------------------------------------------------------
(* C23: after any completed subject/preview/summary generation (Step 4), whether   *)
(* each enrichment call returned text, returned empty, raised an error, or no      *)
(* credential is configured, the session's stored subject line, preview text and   *)
(* newsletter summary are each a non-empty string (the port's text, or else a      *)
(* static fallback) and the content-generated flag is set.                         *)

\* the texts a completion of Step 4 gives once cleaned
PortTexts == {_make_llm_call(Answering(llm_helper, reply)) : reply \in Step4Replies(llm_helper)} \ {""}

\* Step 4 has stored its three texts
Step4Done == content # NoContentStored

C23_StoredTextsNonEmpty ==
    /\ Step4Done <=> content_generated
    /\ Step4Done =>
           /\ content.subject_lines # ""
           /\ content.preview_text # ""
           /\ content.newsletter_summary # ""
           /\ content.subject_lines \in PortTexts \cup {SUBJECT_FALLBACK, FALLBACK_SUBJECT_LINE}
           /\ content.preview_text \in PortTexts \cup {PREVIEW_FALLBACK, FALLBACK_PREVIEW_TEXT}
           /\ content.newsletter_summary
                  \in PortTexts \cup {SUMMARY_FALLBACK, FALLBACK_NEWSLETTER_SUMMARY}

\* Step 4 with a credential: the subject call raised, the preview call gave its text
C23_Witness ==
    /\ content_generated
    /\ llm_helper.api_key
    /\ content.subject_lines = SUBJECT_FALLBACK
    /\ content.preview_text \in PortTexts

\* Step 4 without a credential: the static texts of the helper
C23_WitnessNoCredential ==
    /\ content_generated
    /\ ~llm_helper.api_key
    /\ content.subject_lines = FALLBACK_SUBJECT_LINE
    /\ content.newsletter_summary = FALLBACK_NEWSLETTER_SUMMARY

----------------------------------------------------------------------------
(* C29: if the newsletter generation step (Step 3) raises an error while composing *)
(* blocks or assembling, the session's stored newsletter HTML, stored block list   *)
(* and html-generated flag are left exactly as they were before the attempt: a     *)
(* previous successful result stays in place, and if there was none, none is       *)
(* stored.                                                                         *)

C29_FailedGenerationStoresNothing ==
    [][page'.error # "" => (generation' = generation /\ html_generated' = html_generated)]_vars

\* Step 3 failed on an order other than the one of the result that is stored
C29_Witness ==
    /\ page.error # ""
    /\ html_generated
    /\ generation # NoGeneration
    /\ generation.content_order # content_order

\* Step 3 failed in a session without a result
C29_WitnessNoneStored ==
    /\ page.error # ""
    /\ ~html_generated
    /\ generation = NoGeneration

----------------------------------------------------------------------------
(* C30: a final newsletter (Step 5) can be produced only in a session where a      *)
(* Step-3 generation has already succeeded and a Step-4 generation has already     *)
(* completed, and its fragments are exactly the blocks stored by the most recent   *)
(* successful Step-3 generation, in that stored order: changes made afterwards to  *)
(* the content order, the events or the uploaded CSV do not alter the final        *)
(* document until Step 3 is run again.                                             *)

FinalShown == page.final_parts # <<>>

\* the last n parts inside the wrapper
LastWrapped(parts, n) == SubSeq(Wrapped(parts), Len(Wrapped(parts)) - n + 1, Len(Wrapped(parts)))

C30_FinalFromStoredBlocks ==
    FinalShown =>
        /\ html_generated /\ content_generated
        /\ generation # NoGeneration
        /\ page.final_blocks = generation.html_blocks
        /\ IsWrapper(page.final_parts)
        /\ Len(Wrapped(page.final_parts)) >= Len(Kept(generation.html_blocks))
        /\ LastWrapped(page.final_parts, Len(Kept(generation.html_blocks)))
               = Kept(generation.html_blocks)

\* a final newsletter shown after the order and the upload have changed since Step 3
C30_Witness ==
    /\ FinalShown
    /\ content_order # generation.content_order
    /\ courses_df # generation.courses
    /\ generation.html_blocks # <<>>

====
